---- MODULE Spec2Model ----
(***************************************************************************)
(* A model of diamond-types: the causal graph algorithms of                *)
(* src/causalgraph/parents/tools.rs and the list CRDT replica of           *)
(* src/list/doc.rs and src/list/external_txn.rs.                            *)
(***************************************************************************)
EXTENDS Integers, Sequences, FiniteSets, TLC

VARIABLES
    graph,      \* Parents.entries: the RLE list of causal graph entries
    ret,        \* the arguments and the return value of the last graph query
    docs,       \* the ListCRDT replicas
    log,        \* the RemoteTxns exported so far, in export order
    dest,       \* the scratch replica of the last replicate_into call
    rope,       \* the reference string of the single-document fuzzer
    list_branch      \* a ListBranch over the server's operations: [version, content]

cgvars  == <<graph, ret>>
docvars == <<docs, log, dest, rope, list_branch>>
vars    == <<graph, ret, docs, log, dest, rope, list_branch>>

(***************************************************************************)
(* Bounds                                                                  *)
(***************************************************************************)
MaxLV == 4          \* LVs in a causal graph of SpecCG
MaxSpan == 2        \* length of one pushed graph entry

(***************************************************************************)
(* Program constants                                                       *)
(***************************************************************************)
\* usize::MAX in the source; the largest integer the checker represents.
ROOT_TIME == 2147483647

OnlyA == 0
OnlyB == 1
Shared == 2

(***************************************************************************)
(* Small helpers on sequences                                              *)
(***************************************************************************)
Range(s) == {s[i] : i \in 1..Len(s)}
Contains(s, x) == \E i \in 1..Len(s) : s[i] = x
Last(s) == s[Len(s)]
Min(a, b) == IF a < b THEN a ELSE b
Max(a, b) == IF a > b THEN a ELSE b
RemoveAt(s, i) == SubSeq(s, 1, i - 1) \o SubSeq(s, i + 1, Len(s))
IsSorted(s) == \A i \in 1..Len(s) - 1 : s[i] < s[i + 1]

RECURSIVE SetToSortedSeq(_)
SetToSortedSeq(S) ==
    IF S = {} THEN <<>>
    ELSE LET m == CHOOSE x \in S : \A y \in S : x <= y
         IN <<m>> \o SetToSortedSeq(S \ {m})

wrapping_add1(t) == IF t = ROOT_TIME THEN 0 ELSE t + 1

(***************************************************************************)
(* The causal graph: entries [span |-> <<start, end>>, shadow, parents]    *)
(***************************************************************************)
NextLV(g) == IF Len(g) = 0 THEN 0 ELSE Last(g).span[2]

\* RleVec::find: the entry containing time t (unwrap panics when there is none).
find(g, t) == g[CHOOSE i \in 1..Len(g) : g[i].span[1] <= t /\ t < g[i].span[2]]

shadow_contains(e, t) == t >= e.shadow

entry_contains(e, t) == e.span[1] <= t /\ t < e.span[2]

shadow_of(g, t) == IF t = ROOT_TIME THEN ROOT_TIME ELSE find(g, t).shadow

txn_shadow_contains(g, a, b) ==
    LET a_1 == wrapping_add1(a)
        b_1 == wrapping_add1(b)
    IN a_1 = b_1 \/ (a_1 > b_1 /\ wrapping_add1(shadow_of(g, a)) <= b_1)

\* is_direct_descendant_coarse that does not look at the entry of a.
is_direct_descendant_by_time(g, a, b) ==
    \/ a = b
    \/ (b = ROOT_TIME /\ txn_shadow_contains(g, a, ROOT_TIME))
    \/ (a # ROOT_TIME /\ a > b)

is_direct_descendant_coarse(g, a, b) ==
    \/ a = b
    \/ (b = ROOT_TIME /\ txn_shadow_contains(g, a, ROOT_TIME))
    \/ (a # ROOT_TIME /\ a > b /\ entry_contains(find(g, a), b))

\* The shadow loop that follows any earlier parent, not only the LV just before.
RECURSIVE ComputeShadow_any_earlier_parent(_, _, _)
ComputeShadow_any_earlier_parent(g, parents, shadow) ==
    IF shadow >= 1 /\ \E i \in 1..Len(parents) : parents[i] < shadow
    THEN ComputeShadow_any_earlier_parent(g, parents, find(g, shadow - 1).shadow)
    ELSE shadow

\* The shadow loop of insert_txn.
RECURSIVE ComputeShadow(_, _, _)
ComputeShadow(g, parents, shadow) ==
    IF shadow >= 1 /\ Contains(parents, shadow - 1)
    THEN ComputeShadow(g, parents, find(g, shadow - 1).shadow)
    ELSE shadow

TxnCanAppend(e, o) ==
    /\ o.span[1] = e.span[2]
    /\ Len(o.parents) = 1
    /\ o.parents[1] = e.span[2] - 1
    /\ o.shadow = e.shadow

\* Rle::append of a txn entry: merge into the tail when possible.
AppendTxn(g, o) ==
    IF Len(g) > 0 /\ TxnCanAppend(Last(g), o)
    THEN [g EXCEPT ![Len(g)] = [@ EXCEPT !.span = <<@[1], o.span[2]>>]]
    ELSE Append(g, o)

PushEntry(g, parents, len) ==
    LET first == NextLV(g)
    IN AppendTxn(g, [span |-> <<first, first + len>>,
                     shadow |-> ComputeShadow(g, parents, first),
                     parents |-> parents])

(***************************************************************************)
(* Reference definitions: the history of a frontier                        *)
(***************************************************************************)
ParentsOf(g, lv) ==
    LET e == find(g, lv)
    IN IF lv = e.span[1] THEN Range(e.parents) \ {ROOT_TIME} ELSE {lv - 1}

RECURSIVE HistFrom(_, _, _)
HistFrom(g, S, lv) ==
    IF lv < 0 THEN S
    ELSE HistFrom(g, IF lv \in S THEN S \cup ParentsOf(g, lv) ELSE S, lv - 1)

\* All LVs reachable from the set F through parent edges, F included.
HistoryOf(g, F) == HistFrom(g, F \ {ROOT_TIME}, NextLV(g) - 1)
History(g, f) == HistoryOf(g, Range(f))

IsAntichain(g, F) == \A x \in F : \A y \in F : x # y => x \notin HistoryOf(g, {y})

\* Every version (sorted antichain) of the graph.
Frontiers(g) ==
    LET N == NextLV(g)
    IN {SetToSortedSeq(F) : F \in {F \in SUBSET (0..N - 1) : IsAntichain(g, F)}}

SpanSet(r) == r[1]..(r[2] - 1)
Covered(spans) == UNION {SpanSet(spans[i]) : i \in 1..Len(spans)}

(***************************************************************************)
(* version_contains_time                                                   *)
(***************************************************************************)
\* vct_queue_loop without the walk to the parents: only the popped entry's
\* shadow and direct parents decide.
vct_queue_loop_no_parents(g, queue, target) ==
    IF queue = {} THEN FALSE
    ELSE LET order == CHOOSE x \in queue : \A y \in queue : y <= x
             entry == find(g, order)
         IN shadow_contains(entry, target) \/ Contains(entry.parents, target)

\* The BinaryHeap of plain times is a set here: the loop drains every queued
\* time of the entry it pops, so a duplicate never changes the walk.
RECURSIVE vct_queue_loop(_, _, _)
vct_queue_loop(g, queue, target) ==
    IF queue = {} THEN FALSE
    ELSE LET order == CHOOSE x \in queue : \A y \in queue : y <= x
             entry == find(g, order)
             rest  == {x \in queue : x < entry.span[1]}
         IN IF shadow_contains(entry, target) THEN TRUE
            ELSE IF Contains(entry.parents, target) THEN TRUE
            ELSE vct_queue_loop(g, rest \cup {p \in Range(entry.parents) : p > target},
                                target)

version_contains_time(g, frontier, target) ==
    IF target = ROOT_TIME \/ Contains(frontier, target) THEN TRUE
    ELSE IF Len(frontier) = 0 THEN FALSE
    ELSE IF \E i \in 1..Len(frontier) :
                frontier[i] > target /\ shadow_contains(find(g, frontier[i]), target)
         THEN TRUE
    ELSE vct_queue_loop(g, {o \in Range(frontier) : o > target}, target)

(***************************************************************************)
(* diff                                                                    *)
(***************************************************************************)
\* AppendRle::push_reversed_rle on a list of DTRanges in descending order.
push_reversed_rle(list, r) ==
    IF Len(list) > 0 /\ Last(list)[1] = r[2]
    THEN [list EXCEPT ![Len(list)] = <<r[1], @[2]>>]
    ELSE Append(list, r)

\* Heap order of (Time, DiffFlag) tuples.
QGreater(x, y) == x[1] > y[1] \/ (x[1] = y[1] /\ x[2] > y[2])
PeekIdx(q) == CHOOSE i \in 1..Len(q) : \A j \in 1..Len(q) : ~QGreater(q[j], q[i])

\* mark_run that pushes every run as a range of its own.
mark_run_unmerged(s, ord_start, ord_end, flag) ==
    IF flag = OnlyA
    THEN [s EXCEPT !.only_a = Append(@, <<ord_start, ord_end + 1>>)]
    ELSE IF flag = OnlyB
    THEN [s EXCEPT !.only_b = Append(@, <<ord_start, ord_end + 1>>)]
    ELSE s

\* The closure of diff_slow: marks [ord_start..ord_end] inclusive.
mark_run(s, ord_start, ord_end, flag) ==
    IF flag = OnlyA
    THEN [s EXCEPT !.only_a = push_reversed_rle(@, <<ord_start, ord_end + 1>>)]
    ELSE IF flag = OnlyB
    THEN [s EXCEPT !.only_b = push_reversed_rle(@, <<ord_start, ord_end + 1>>)]
    ELSE s

RECURSIVE diff_dedup(_)
diff_dedup(s) ==
    IF Len(s.q) = 0 THEN s
    ELSE LET i == PeekIdx(s.q)
             p == s.q[i]
         IN IF p[1] # s.ord THEN s
            ELSE diff_dedup([s EXCEPT
                    !.flag = IF p[2] # s.flag THEN Shared ELSE @,
                    !.ns = IF p[2] = Shared THEN @ - 1 ELSE @,
                    !.q = RemoveAt(@, i)])

RECURSIVE diff_same_txn(_, _)
diff_same_txn(s, start) ==
    IF Len(s.q) = 0 THEN s
    ELSE LET i == PeekIdx(s.q)
             p == s.q[i]
         IN IF p[1] < start THEN s
            ELSE LET s1 == IF p[2] # s.flag
                           THEN [mark_run(s, p[1] + 1, s.ord, s.flag) EXCEPT
                                    !.ord = p[1], !.flag = Shared]
                           ELSE s
                 IN diff_same_txn([s1 EXCEPT
                        !.ns = IF p[2] = Shared THEN @ - 1 ELSE @,
                        !.q = RemoveAt(@, i)], start)

RECURSIVE diff_loop(_, _)
diff_loop(g, s) ==
    IF Len(s.q) = 0 THEN s
    ELSE LET i == PeekIdx(s.q)
             top == s.q[i]
             s0 == [s EXCEPT !.q = RemoveAt(@, i), !.ord = top[1], !.flag = top[2],
                             !.ns = IF top[2] = Shared THEN @ - 1 ELSE @]
             s1 == diff_dedup(s0)
             txn == find(g, s1.ord)
             s2 == diff_same_txn(s1, txn.span[1])
             s3 == mark_run(s2, txn.span[1], s2.ord, s2.flag)
             s4 == [s3 EXCEPT
                      !.q = @ \o [k \in 1..Len(txn.parents) |-> <<txn.parents[k], s3.flag>>],
                      !.ns = IF s3.flag = Shared THEN @ + Len(txn.parents) ELSE @]
         IN IF Len(s4.q) = s4.ns THEN s4 ELSE diff_loop(g, s4)

diff_slow_internal(g, a, b) ==
    diff_loop(g, [q |-> [k \in 1..Len(a) |-> <<a[k], OnlyA>>]
                        \o [k \in 1..Len(b) |-> <<b[k], OnlyB>>],
                  ord |-> 0, flag |-> OnlyA, ns |-> 0,
                  only_a |-> <<>>, only_b |-> <<>>])

diff_slow(g, a, b) ==
    LET s == diff_slow_internal(g, a, b) IN <<s.only_a, s.only_b>>

\* diff with the fast path taken on the shadow alone, although the entry may
\* have ancestors outside the range between the two versions.
diff_by_shadow(g, a, b) ==
    IF a = b THEN <<(<<>>), (<<>>)>>
    ELSE IF Len(a) = 1 /\ Len(b) = 1 /\ a[1] > b[1] /\ txn_shadow_contains(g, a[1], b[1])
    THEN <<(<< <<wrapping_add1(b[1]), wrapping_add1(a[1])>> >>), (<<>>)>>
    ELSE IF Len(a) = 1 /\ Len(b) = 1 /\ b[1] > a[1] /\ txn_shadow_contains(g, b[1], a[1])
    THEN <<(<<>>), (<< <<wrapping_add1(a[1]), wrapping_add1(b[1])>> >>)>>
    ELSE diff_slow(g, a, b)

diff(g, a, b) ==
    IF a = b THEN <<(<<>>), (<<>>)>>
    ELSE IF Len(a) = 1 /\ Len(b) = 1 /\ is_direct_descendant_coarse(g, a[1], b[1])
    THEN <<(<< <<wrapping_add1(b[1]), wrapping_add1(a[1])>> >>), (<<>>)>>
    ELSE IF Len(a) = 1 /\ Len(b) = 1 /\ is_direct_descendant_coarse(g, b[1], a[1])
    THEN <<(<<>>), (<< <<wrapping_add1(a[1]), wrapping_add1(b[1])>> >>)>>
    ELSE diff_slow(g, a, b)

(***************************************************************************)
(* version_union                                                           *)
(***************************************************************************)
RECURSIVE InsertSorted(_, _)
InsertSorted(f, x) ==
    IF Len(f) = 0 THEN <<x>>
    ELSE IF x < f[1] THEN <<x>> \o f
    ELSE <<f[1]>> \o InsertSorted(Tail(f), x)

\* One known run: drop the run's parents from the frontier, add its last time.
advance_frontier_by_known_run(f, parents, span) ==
    InsertSorted(SelectSeq(f, LAMBDA o : ~Contains(parents, o)), span[2] - 1)

RECURSIVE advance_frontier_by(_, _, _)
advance_frontier_by(g, f, span) ==
    IF span[1] >= span[2] THEN f
    ELSE LET txn == find(g, span[1])
             end == Min(txn.span[2], span[2])
             parents == IF span[1] = txn.span[1] THEN txn.parents ELSE <<span[1] - 1>>
         IN advance_frontier_by(g,
                advance_frontier_by_known_run(f, parents, <<span[1], end>>),
                <<end, span[2]>>)

RECURSIVE advance_all(_, _, _)
advance_all(g, f, spans) ==
    IF Len(spans) = 0 THEN f
    ELSE advance_all(g, advance_frontier_by(g, f, Head(spans)), Tail(spans))

version_union(g, a, b) ==
    LET d == diff(g, a, b)
    IN IF Len(d[1]) = 0 THEN b
       ELSE IF Len(d[2]) = 0 THEN a
       ELSE advance_all(g, a, d[2])

(***************************************************************************)
(* find_conflicting                                                        *)
(***************************************************************************)
\* A heap element is a TimePoint with its flag: [last, mw, flag]. Ord for
\* TimePoint compares last.wrapping_add(1), then puts merges first.
TPKey(x) == <<wrapping_add1(x.last), IF Len(x.mw) = 0 THEN 0 ELSE 1, x.flag>>
TPGreater(x, y) ==
    LET a == TPKey(x)
        b == TPKey(y)
    IN \/ a[1] > b[1]
       \/ (a[1] = b[1] /\ a[2] > b[2])
       \/ (a[1] = b[1] /\ a[2] = b[2] /\ a[3] > b[3])
TPPeekIdx(q) == CHOOSE i \in 1..Len(q) : \A j \in 1..Len(q) : ~TPGreater(q[j], q[i])

\* From<Time> and From<&[Time]> for TimePoint.
TimePointOf(t, flag) == [last |-> t, mw |-> <<>>, flag |-> flag]
TimePointOfVersion(v, flag) ==
    IF Len(v) = 0 THEN [last |-> ROOT_TIME, mw |-> <<>>, flag |-> flag]
    ELSE [last |-> Last(v), mw |-> SubSeq(v, 1, Len(v) - 1), flag |-> flag]

Shatter(q, mw, flag) == q \o [k \in 1..Len(mw) |-> TimePointOf(mw[k], flag)]

RECURSIVE fc_dedup(_, _, _)
fc_dedup(q, time, flag) ==
    IF Len(q) = 0 THEN [q |-> q, flag |-> flag]
    ELSE LET i == TPPeekIdx(q)
             p == q[i]
         IN IF p.last = time.last /\ p.mw = time.mw
            THEN fc_dedup(RemoveAt(q, i), time, IF p.flag # flag THEN Shared ELSE flag)
            ELSE [q |-> q, flag |-> flag]

\* fc_inner that keeps its flag when it meets a time point of the other side.
RECURSIVE fc_inner_keep_flag(_, _, _, _, _)
fc_inner_keep_flag(q, out, txn, range, flag) ==
    IF Len(q) = 0
    THEN [done |-> TRUE, frontier |-> <<range[2] - 1>>, q |-> q, out |-> out]
    ELSE LET i == TPPeekIdx(q)
             p == q[i]
         IN IF p.last # ROOT_TIME /\ p.last >= txn.span[1]
            THEN LET cut == p.last + 1 < range[2]
                     out1 == IF cut THEN Append(out, <<(<<p.last + 1, range[2]>>), flag>>)
                             ELSE out
                     range1 == IF cut THEN <<range[1], p.last + 1>> ELSE range
                     q1 == Shatter(RemoveAt(q, i), p.mw, p.flag)
                 IN fc_inner_keep_flag(q1, out1, txn, range1, flag)
            ELSE [done |-> FALSE, frontier |-> <<>>,
                  q |-> Append(q, TimePointOfVersion(txn.parents, flag)),
                  out |-> Append(out, <<range, flag>>)]

\* The inner loop: consume all other changes within this txn. Returns the heap
\* and the visits, and the frontier when the walk ends here.
RECURSIVE fc_inner(_, _, _, _, _)
fc_inner(q, out, txn, range, flag) ==
    IF Len(q) = 0
    THEN [done |-> TRUE, frontier |-> <<range[2] - 1>>, q |-> q, out |-> out]
    ELSE LET i == TPPeekIdx(q)
             p == q[i]
         IN IF p.last # ROOT_TIME /\ p.last >= txn.span[1]
            THEN LET cut == p.last + 1 < range[2]
                     out1 == IF cut THEN Append(out, <<(<<p.last + 1, range[2]>>), flag>>)
                             ELSE out
                     range1 == IF cut THEN <<range[1], p.last + 1>> ELSE range
                     flag1 == IF p.flag # flag THEN Shared ELSE flag
                     q1 == Shatter(RemoveAt(q, i), p.mw, p.flag)
                 IN fc_inner(q1, out1, txn, range1, flag1)
            ELSE [done |-> FALSE, frontier |-> <<>>,
                  q |-> Append(q, TimePointOfVersion(txn.parents, flag)),
                  out |-> Append(out, <<range, flag>>)]

RECURSIVE fc_loop(_, _, _)
fc_loop(g, q, out) ==
    LET i == TPPeekIdx(q)
        time == q[i]
        t == time.last
    IN IF t = ROOT_TIME THEN [frontier |-> <<>>, out |-> out]
       ELSE LET d == fc_dedup(RemoveAt(q, i), time, time.flag)
            IN IF Len(d.q) = 0
               THEN [frontier |-> Append(time.mw, t), out |-> out]
               ELSE LET q1 == Shatter(d.q, time.mw, d.flag)
                        txn == find(g, t)
                        r == fc_inner(q1, out, txn, <<txn.span[1], t + 1>>, d.flag)
                    IN IF r.done THEN [frontier |-> r.frontier, out |-> r.out]
                       ELSE fc_loop(g, r.q, r.out)

\* Returns [frontier, out]: the common ancestor and the visit(range, flag)
\* calls in order.
find_conflicting_slow(g, a, b) ==
    fc_loop(g, <<TimePointOfVersion(a, OnlyA), TimePointOfVersion(b, OnlyB)>>, <<>>)

find_conflicting(g, a, b) ==
    IF a = b THEN [frontier |-> a, out |-> <<>>]
    ELSE LET a0 == IF Len(a) = 0 THEN ROOT_TIME ELSE a[1]
             b0 == IF Len(b) = 0 THEN ROOT_TIME ELSE b[1]
         IN IF Len(a) <= 1 /\ Len(b) <= 1 /\ is_direct_descendant_coarse(g, a0, b0)
            THEN [frontier |-> <<b0>>,
                  out |-> << <<(<<wrapping_add1(b0), wrapping_add1(a0)>>), OnlyA>> >>]
            ELSE IF Len(a) <= 1 /\ Len(b) <= 1 /\ is_direct_descendant_coarse(g, b0, a0)
            THEN [frontier |-> <<a0>>,
                  out |-> << <<(<<wrapping_add1(a0), wrapping_add1(b0)>>), OnlyB>> >>]
            ELSE find_conflicting_slow(g, a, b)

(***************************************************************************)
(* SpecCG: a causal graph grown by pushes, queried by the graph tools      *)
(***************************************************************************)
NoRet == [op |-> "none", a |-> <<>>, b |-> <<>>, t |-> 0, out |-> <<>>]

\* The engine is single-threaded: a call is made only once the caller has
\* taken the previous call's result (Return).
Push(parents, len) ==
    /\ ret.op = "none"
    /\ NextLV(graph) + len <= MaxLV
    /\ graph' = PushEntry(graph, parents, len)
    /\ UNCHANGED <<ret, docvars>>

Return ==
    /\ ret.op # "none"
    /\ ret' = NoRet
    /\ UNCHANGED <<graph, docvars>>

VersionContainsTime(f, t) ==
    /\ ret.op = "none"
    /\ ret' = [op |-> "version_contains_time", a |-> f, b |-> <<>>, t |-> t,
               out |-> version_contains_time(graph, f, t)]
    /\ UNCHANGED <<graph, docvars>>

Diff(a, b) ==
    /\ ret.op = "none"
    /\ ret' = [op |-> "diff", a |-> a, b |-> b, t |-> 0, out |-> diff(graph, a, b)]
    /\ UNCHANGED <<graph, docvars>>

VersionUnion(a, b) ==
    /\ ret.op = "none"
    /\ ret' = [op |-> "version_union", a |-> a, b |-> b, t |-> 0,
               out |-> version_union(graph, a, b)]
    /\ UNCHANGED <<graph, docvars>>

FindConflictingSlow(a, b) ==
    /\ ret.op = "none"
    /\ ret' = [op |-> "find_conflicting_slow", a |-> a, b |-> b, t |-> 0,
               out |-> find_conflicting_slow(graph, a, b)]
    /\ UNCHANGED <<graph, docvars>>

NextCG ==
    \/ \E p \in Frontiers(graph), len \in 1..MaxSpan : Push(p, len)
    \/ \E f \in Frontiers(graph), t \in (0..NextLV(graph) - 1) \cup {ROOT_TIME} :
            VersionContainsTime(f, t)
    \/ \E a \in Frontiers(graph), b \in Frontiers(graph) : Diff(a, b)
    \/ \E a \in Frontiers(graph), b \in Frontiers(graph) : VersionUnion(a, b)
    \/ \E a \in Frontiers(graph), b \in Frontiers(graph) : FindConflictingSlow(a, b)
    \/ Return

InitCG ==
    /\ graph = <<>>
    /\ ret = NoRet
    /\ docs = <<>>
    /\ log = <<>>
    /\ dest = <<>>
    /\ rope = <<>>
    /\ list_branch = [version |-> <<>>, content |-> <<>>]

SpecCG == InitCG /\ [][NextCG]_vars

(***************************************************************************)
(* Claims about the graph tools (SpecCG)                                   *)
(***************************************************************************)
RECURSIVE SumLen(_)
SumLen(spans) == IF Len(spans) = 0 THEN 0
                 ELSE (Head(spans)[2] - Head(spans)[1]) + SumLen(Tail(spans))

\* The spans cover exactly the set S, each LV once.
CoversOnce(spans, S) == Covered(spans) = S /\ SumLen(spans) = Cardinality(S)

\* C6: diff(a, b) = (A, B) where A covers exactly history(a) \ history(b) and
\* B covers exactly history(b) \ history(a), each LV appearing once.
C6_DiffIsHistoryDifference ==
    ret.op = "diff" =>
        /\ CoversOnce(ret.out[1], History(graph, ret.a) \ History(graph, ret.b))
        /\ CoversOnce(ret.out[2], History(graph, ret.b) \ History(graph, ret.a))

\* A diff taken by the slow path where b lies in the shadow of a's entry while
\* a has further ancestors outside b's history (the shadow bubble).
C6_Witness ==
    /\ ret.op = "diff"
    /\ Len(ret.a) = 1 /\ Len(ret.b) = 1
    /\ ret.a[1] > ret.b[1]
    /\ txn_shadow_contains(graph, ret.a[1], ret.b[1])
    /\ ~is_direct_descendant_coarse(graph, ret.a[1], ret.b[1])
    /\ Len(ret.out[1]) >= 2
    /\ Len(ret.out[2]) = 0

VisitSpans(out) == [k \in 1..Len(out) |-> out[k][1]]
FlagOf(g, a, b, lv) ==
    IF lv \in History(g, a) /\ lv \in History(g, b) THEN Shared
    ELSE IF lv \in History(g, a) THEN OnlyA ELSE OnlyB

C8_VersionContainsTime ==
    ret.op = "version_contains_time" =>
        (ret.out <=> (ret.t = ROOT_TIME \/ ret.t \in History(graph, ret.a)))

\* A true answer found by the heap walk: the target is neither in the frontier
\* nor in the shadow of a frontier entry.
C8_Witness ==
    /\ ret.op = "version_contains_time"
    /\ ret.out = TRUE
    /\ ret.t # ROOT_TIME
    /\ ~Contains(ret.a, ret.t)
    /\ \A i \in 1..Len(ret.a) :
          ret.a[i] > ret.t => ~shadow_contains(find(graph, ret.a[i]), ret.t)

\* C10: version_union(a, b) is a sorted antichain whose history is exactly
\* history(a) \cup history(b).
C10_VersionUnion ==
    ret.op = "version_union" =>
        /\ History(graph, ret.out) = History(graph, ret.a) \cup History(graph, ret.b)
        /\ IsSorted(ret.out)
        /\ IsAntichain(graph, Range(ret.out))

(***************************************************************************)
(* The list CRDT replica (src/list/doc.rs)                                 *)
(*                                                                         *)
(* A document is a record                                                  *)
(*   client_data       agent id -> [name, item_orders: <<seq, order, len>>]*)
(*   client_with_order RLE list of <<order, agent, seq, len>>              *)
(*   frontier          list of orders                                      *)
(*   range_tree        the items in document order, one element per        *)
(*                     character: [order, origin_left, origin_right,       *)
(*                     activated]; the entries (runs) of the tree are the  *)
(*                     maximal mergeable runs of this list                 *)
(*   deletes           RLE list of <<delete order, target order, len>>     *)
(*   double_deletes    target order -> extra delete count                  *)
(*   txns              RLE list of [span, shadow, parents]                 *)
(*   text_content      list of characters                                  *)
(* Agent ids index client_data from 1 (from 0 in the source).              *)
(***************************************************************************)
ROOT_ORDER == ROOT_TIME
ROOT_AGENT == ROOT_TIME

\* The agent names, in lexicographic order.
AgentNames == <<"a", "b", "c">>
NameRank(n) == CHOOSE i \in 1..Len(AgentNames) : AgentNames[i] = n
\* The tie-break with the comparison the other way round.
NameGreater(x, y) == NameRank(x) > NameRank(y)
NameLess(x, y) == NameRank(x) < NameRank(y)

NewDoc ==
    [client_data |-> <<>>, client_with_order |-> <<>>, frontier |-> <<ROOT_ORDER>>,
     range_tree |-> <<>>, deletes |-> <<>>, double_deletes |-> <<>>,
     txns |-> <<>>, text_content |-> <<>>]

root_id == [agent |-> "ROOT", seq |-> ROOT_ORDER]

\* ClientData::get_next_seq
get_next_seq(c) ==
    IF Len(c.item_orders) = 0 THEN 0
    ELSE Last(c.item_orders)[1] + Last(c.item_orders)[3]

\* Rle::find on item_orders: the entry holding seq (unwrap panics on none).
FindSeq(c, seq) ==
    c.item_orders[CHOOSE i \in 1..Len(c.item_orders) :
        c.item_orders[i][1] <= seq /\ seq < c.item_orders[i][1] + c.item_orders[i][3]]

KnowsSeq(c, seq) ==
    \E i \in 1..Len(c.item_orders) :
        c.item_orders[i][1] <= seq /\ seq < c.item_orders[i][1] + c.item_orders[i][3]

\* seq_to_order that forgets the offset into the entry.
seq_to_order_entry_start(c, seq) ==
    LET e == FindSeq(c, seq) IN e[2]

seq_to_order(c, seq) ==
    LET e == FindSeq(c, seq) IN e[2] + (seq - e[1])

\* Returns <<order, len>>.
seq_to_order_span(c, seq, max_len) ==
    LET e == FindSeq(c, seq)
        offset == seq - e[1]
    IN <<e[2] + offset, Min(max_len, e[3] - offset)>>

\* advance_branch_by that forgets the concurrent heads.
advance_branch_by_replace(branch, txn_parents, first_order, len) ==
    <<first_order + len - 1>>

\* advance_branch_by that leaves the txn's parents in the branch.
advance_branch_by_keep_parents(branch, txn_parents, first_order, len) ==
    Append(branch, first_order + len - 1)

\* advance_branch_by: retain what is not a parent, push the txn's last order.
advance_branch_by(branch, txn_parents, first_order, len) ==
    Append(SelectSeq(branch, LAMBDA o : ~Contains(txn_parents, o)),
           first_order + len - 1)

get_agent_id(d, name) ==
    IF name = "ROOT" THEN ROOT_AGENT
    ELSE IF \E i \in 1..Len(d.client_data) : d.client_data[i].name = name
    THEN CHOOSE i \in 1..Len(d.client_data) : d.client_data[i].name = name
    ELSE 0      \* None

\* get_or_create_agent_id that never looks the name up.
get_or_create_agent_id_always_new(d, name) ==
    IF name = "ROOT" THEN d
    ELSE [d EXCEPT !.client_data = Append(@, [name |-> name, item_orders |-> <<>>])]

\* Returns the document with the agent created if needed.
get_or_create_agent_id(d, name) ==
    IF name = "ROOT" \/ get_agent_id(d, name) # 0 THEN d
    ELSE [d EXCEPT !.client_data = Append(@, [name |-> name, item_orders |-> <<>>])]

get_agent_name(d, agent) == d.client_data[agent].name

\* Rle::find on client_with_order.
FindOrder(d, order) ==
    d.client_with_order[CHOOSE i \in 1..Len(d.client_with_order) :
        /\ d.client_with_order[i][1] <= order
        /\ order < d.client_with_order[i][1] + d.client_with_order[i][4]]

\* Returns [agent, seq].
get_crdt_location(d, order) ==
    IF order = ROOT_ORDER THEN [agent |-> ROOT_AGENT, seq |-> ROOT_ORDER]
    ELSE LET e == FindOrder(d, order)
         IN [agent |-> e[2], seq |-> e[3] + (order - e[1])]

\* Returns [agent, seq, len].
get_crdt_span(d, order, max_size) ==
    IF order = ROOT_ORDER THEN [agent |-> ROOT_AGENT, seq |-> ROOT_ORDER, len |-> 0]
    ELSE LET e == FindOrder(d, order)
             offset == order - e[1]
         IN [agent |-> e[2], seq |-> e[3] + offset, len |-> Min(e[4] - offset, max_size)]

get_order(d, loc) ==
    IF loc.agent = ROOT_AGENT THEN ROOT_ORDER
    ELSE seq_to_order(d.client_data[loc.agent], loc.seq)

get_next_order(d) ==
    IF Len(d.client_with_order) = 0 THEN 0
    ELSE Last(d.client_with_order)[1] + Last(d.client_with_order)[4]

\* assign_order_to_client that records one seq whatever the length.
assign_order_to_client_one_seq(d, agent, seq, order, len) ==
    [d EXCEPT !.client_with_order = Append(@, <<order, agent, seq, len>>),
              !.client_data = [@ EXCEPT ![agent] =
                    [@ EXCEPT !.item_orders = Append(@, <<seq, order, 1>>)]]]

\* Rle::append of KVPair(order, CRDTSpan) and of KVPair(seq, OrderSpan).
assign_order_to_client(d, agent, seq, order, len) ==
    LET cwo == d.client_with_order
        io == d.client_data[agent].item_orders
        cwo1 == IF /\ Len(cwo) > 0
                   /\ Last(cwo)[1] + Last(cwo)[4] = order
                   /\ Last(cwo)[2] = agent
                   /\ Last(cwo)[3] + Last(cwo)[4] = seq
                THEN [cwo EXCEPT ![Len(cwo)] = <<@[1], @[2], @[3], @[4] + len>>]
                ELSE Append(cwo, <<order, agent, seq, len>>)
        io1 == IF /\ Len(io) > 0
                  /\ Last(io)[1] + Last(io)[3] = seq
                  /\ Last(io)[2] + Last(io)[3] = order
               THEN [io EXCEPT ![Len(io)] = <<@[1], @[2], @[3] + len>>]
               ELSE Append(io, <<seq, order, len>>)
    IN [d EXCEPT !.client_with_order = cwo1,
                 !.client_data = [@ EXCEPT ![agent] = [@ EXCEPT !.item_orders = io1]]]

(***************************************************************************)
(* The range tree, seen as the list of its items                           *)
(***************************************************************************)
\* A cursor is a raw position 0..Len(tree): the number of items before it.
IndexOfOrder(tree, order) == CHOOSE i \in 1..Len(tree) : tree[i].order = order

\* YjsSpan::can_append, per item: i continues the run of i - 1.
Continues(tree, i) ==
    /\ i > 1
    /\ tree[i].order = tree[i - 1].order + 1
    /\ tree[i].origin_left = tree[i - 1].order
    /\ tree[i].origin_right = tree[i - 1].origin_right
    /\ tree[i].activated = tree[i - 1].activated

\* The raw position just after the entry holding item i.
RECURSIVE EntryEnd(_, _)
EntryEnd(tree, i) ==
    IF i < Len(tree) /\ Continues(tree, i + 1) THEN EntryEnd(tree, i + 1) ELSE i

get_cursor_before(tree, order) ==
    IF order = ROOT_ORDER THEN Len(tree) ELSE IndexOfOrder(tree, order) - 1

\* get_cursor_after that lands before the item instead of after it.
get_cursor_after_lands_before(tree, order) ==
    IF order = ROOT_ORDER THEN 0 ELSE IndexOfOrder(tree, order) - 1

get_cursor_after(tree, order) ==
    IF order = ROOT_ORDER THEN 0 ELSE IndexOfOrder(tree, order)

\* Cursor::count_pos: the visible characters before the cursor.
count_pos(tree, cursor) == Cardinality({i \in 1..cursor : tree[i].activated})

content_len(tree) == count_pos(tree, Len(tree))

\* cursor_at_content_pos(pos, false): the cursor at the visible character pos.
cursor_at_content_pos(tree, pos) ==
    (CHOOSE i \in 1..Len(tree) : tree[i].activated /\ count_pos(tree, i - 1) = pos) - 1

\* Cursor::get_item: the order at the cursor, ROOT_ORDER standing for None.
get_item(tree, cursor) ==
    IF cursor >= Len(tree) THEN ROOT_ORDER ELSE tree[cursor + 1].order

ItemsOf(item) ==
    [k \in 1..item.len |->
        [order |-> item.order + k - 1,
         origin_left |-> IF k = 1 THEN item.origin_left ELSE item.order + k - 2,
         origin_right |-> item.origin_right,
         activated |-> TRUE]]

InsertAt(s, pos, xs) == SubSeq(s, 1, pos) \o xs \o SubSeq(s, pos + 1, Len(s))
RemoveRange(s, pos, n) == SubSeq(s, 1, pos) \o SubSeq(s, pos + n + 1, Len(s))

(***************************************************************************)
(* integrate, insert_txn, apply_remote_txn, apply_local_txn                *)
(***************************************************************************)
FillerChar == "x"

\* Cursor::next_entry from the entry holding the item after `cursor`: the start
\* of the next entry, or the end of this last entry.
next_entry(tree, cursor) == EntryEnd(tree, cursor + 1)

\* The scan of integrate without the comparison of agent names: of two
\* concurrent inserts with the same origins the later arrival goes first.
RECURSIVE integrate_scan_arrival_order(_, _, _, _, _, _, _)
integrate_scan_arrival_order(d, agent, item, left_cursor, cursor, scanning, scan_start) ==
    LET tree == d.range_tree
        here == [cursor |-> cursor, scanning |-> scanning, scan_start |-> scan_start]
    IN IF cursor >= Len(tree) THEN here
       ELSE LET other == tree[cursor + 1]
                other_left_cursor == get_cursor_after(tree, other.origin_left)
                same_right == item.origin_right = other.origin_right
                my_right_cursor == get_cursor_before(tree, item.origin_right)
                other_right_cursor == get_cursor_before(tree, other.origin_right)
                stop == \/ other.order = item.origin_right
                        \/ other_left_cursor < left_cursor
                        \/ (other_left_cursor = left_cursor /\ same_right)
                equal == other_left_cursor = left_cursor
                scanning1 == IF ~equal THEN scanning
                             ELSE other_right_cursor < my_right_cursor
                scan_start1 == IF equal /\ other_right_cursor < my_right_cursor /\ ~scanning
                               THEN cursor ELSE scan_start
                nxt == next_entry(tree, cursor)
            IN IF stop THEN here
               ELSE IF nxt >= Len(tree)
               THEN [cursor |-> Len(tree), scanning |-> scanning1,
                     scan_start |-> scan_start1]
               ELSE integrate_scan_arrival_order(d, agent, item, left_cursor, nxt,
                                                 scanning1, scan_start1)

\* The scan of integrate. Returns [cursor, scanning, scan_start] at the break.
RECURSIVE integrate_scan(_, _, _, _, _, _, _)
integrate_scan(d, agent, item, left_cursor, cursor, scanning, scan_start) ==
    LET tree == d.range_tree
        here == [cursor |-> cursor, scanning |-> scanning, scan_start |-> scan_start]
    IN IF cursor >= Len(tree) THEN here
       ELSE LET other == tree[cursor + 1]
                other_left_cursor == get_cursor_after(tree, other.origin_left)
                same_right == item.origin_right = other.origin_right
                my_name == get_agent_name(d, agent)
                other_name == get_agent_name(d, get_crdt_location(d, other.order).agent)
                my_right_cursor == get_cursor_before(tree, item.origin_right)
                other_right_cursor == get_cursor_before(tree, other.origin_right)
                stop == \/ other.order = item.origin_right
                        \/ other_left_cursor < left_cursor
                        \/ /\ other_left_cursor = left_cursor
                           /\ same_right
                           /\ NameLess(my_name, other_name)
                equal == other_left_cursor = left_cursor
                scanning1 == IF ~equal THEN scanning
                             ELSE IF same_right THEN FALSE
                             ELSE other_right_cursor < my_right_cursor
                scan_start1 == IF equal /\ ~same_right
                                  /\ other_right_cursor < my_right_cursor /\ ~scanning
                               THEN cursor ELSE scan_start
                nxt == next_entry(tree, cursor)
            IN IF stop THEN here
               ELSE IF nxt >= Len(tree)
               THEN [cursor |-> Len(tree), scanning |-> scanning1,
                     scan_start |-> scan_start1]
               ELSE integrate_scan(d, agent, item, left_cursor, nxt, scanning1,
                                   scan_start1)

\* integrate whose filler for unknown content is one character too long.
integrate_long_filler(d, agent, item, ins_content, content_known, cursor_hint) ==
    LET tree == d.range_tree
        cursor0 == IF cursor_hint >= 0 THEN cursor_hint
                   ELSE get_cursor_after(tree, item.origin_left)
        r == integrate_scan(d, agent, item, cursor0, cursor0, FALSE, cursor0)
        cursor == IF r.scanning THEN r.scan_start ELSE r.cursor
        pos == count_pos(tree, cursor)
        text == IF content_known THEN ins_content
                ELSE [k \in 1..(item.len + 1) |-> FillerChar]
    IN [d EXCEPT !.text_content = InsertAt(@, pos, text),
                 !.range_tree = InsertAt(@, cursor, ItemsOf(item))]

\* ins_content is the inserted characters, or <<>> for None (content unknown).
\* cursor_hint is a cursor, or -1 for None.
integrate(d, agent, item, ins_content, content_known, cursor_hint) ==
    LET tree == d.range_tree
        cursor0 == IF cursor_hint >= 0 THEN cursor_hint
                   ELSE get_cursor_after(tree, item.origin_left)
        r == integrate_scan(d, agent, item, cursor0, cursor0, FALSE, cursor0)
        cursor == IF r.scanning THEN r.scan_start ELSE r.cursor
        pos == count_pos(tree, cursor)
        text == IF content_known THEN ins_content
                ELSE [k \in 1..item.len |-> FillerChar]
    IN [d EXCEPT !.text_content = InsertAt(@, pos, text),
                 !.range_tree = InsertAt(@, cursor, ItemsOf(item))]

\* insert_txn whose local txn names the order before it as its only parent.
insert_txn_previous_order(d, is_remote, parents_in, first_order, len) ==
    LET last_order == first_order + len - 1
        txn_parents == IF is_remote THEN parents_in
                       ELSE IF first_order = 0 THEN <<ROOT_ORDER>>
                       ELSE <<first_order - 1>>
        frontier1 == IF is_remote
                     THEN advance_branch_by(d.frontier, parents_in, first_order, len)
                     ELSE <<last_order>>
        txn == [span |-> <<first_order, first_order + len>>,
                shadow |-> ComputeShadow(d.txns, txn_parents, first_order),
                parents |-> txn_parents]
    IN [d EXCEPT !.frontier = frontier1, !.txns = AppendTxn(@, txn)]

\* txn_parents is the parents branch, or <<>> for None (a local change).
insert_txn(d, is_remote, parents_in, first_order, len) ==
    LET last_order == first_order + len - 1
        txn_parents == IF is_remote THEN parents_in ELSE d.frontier
        frontier1 == IF is_remote
                     THEN advance_branch_by(d.frontier, parents_in, first_order, len)
                     ELSE <<last_order>>
        txn == [span |-> <<first_order, first_order + len>>,
                shadow |-> ComputeShadow(d.txns, txn_parents, first_order),
                parents |-> txn_parents]
    IN [d EXCEPT !.frontier = frontier1, !.txns = AppendTxn(@, txn)]

\* external_txn.rs: remote_id_to_order (unwrap panics on an unknown agent).
remote_id_to_order(d, id) ==
    LET agent == get_agent_id(d, id.agent)
    IN IF agent = ROOT_AGENT THEN ROOT_ORDER
       ELSE seq_to_order(d.client_data[agent], id.seq)

\* Rle::append of KVPair(delete order, OrderSpan(target order, len)).
AppendDelete(deletes, del_order, target_order, len) ==
    IF /\ Len(deletes) > 0
       /\ Last(deletes)[1] + Last(deletes)[3] = del_order
       /\ Last(deletes)[2] + Last(deletes)[3] = target_order
    THEN [deletes EXCEPT ![Len(deletes)] = <<@[1], @[2], @[3] + len>>]
    ELSE Append(deletes, <<del_order, target_order, len>>)

increment_delete_range(dd, base, len) ==
    LET R == base..(base + len - 1)
    IN [lv \in DOMAIN dd \cup R |->
            (IF lv \in DOMAIN dd THEN dd[lv] ELSE 0) + (IF lv \in R THEN 1 ELSE 0)]

SetActivated(tree, from, n, v) ==
    [i \in 1..Len(tree) |->
        IF i > from /\ i <= from + n THEN [tree[i] EXCEPT !.activated = v] ELSE tree[i]]

\* The delete loop that counts a repeated delete twice.
RECURSIVE remote_delete_loop_count_twice(_, _, _, _, _)
remote_delete_loop_count_twice(d, agent, target_seq, remaining_len, next_order) ==
    IF remaining_len <= 0 THEN [d |-> d, next_order |-> next_order]
    ELSE LET span == seq_to_order_span(d.client_data[agent], target_seq, remaining_len)
             target_order == span[1]
             tree == d.range_tree
             cursor == get_cursor_before(tree, target_order)
             deleted_here == Min(span[2], EntryEnd(tree, cursor + 1) - cursor)
             was_active == tree[cursor + 1].activated
             pos == count_pos(tree, cursor)
             d1 == IF was_active
                   THEN [d EXCEPT
                           !.range_tree = SetActivated(@, cursor, deleted_here, FALSE),
                           !.text_content = RemoveRange(@, pos, deleted_here)]
                   ELSE [d EXCEPT
                           !.double_deletes =
                               increment_delete_range(
                                   increment_delete_range(@, target_order, deleted_here),
                                   target_order, deleted_here)]
             d2 == [d1 EXCEPT !.deletes =
                        AppendDelete(@, next_order, target_order, deleted_here)]
         IN remote_delete_loop_count_twice(d2, agent, target_seq + deleted_here,
                               remaining_len - deleted_here, next_order + deleted_here)

\* The while loop of the RemoteOp::Del arm. Returns [d, next_order].
RECURSIVE remote_delete_loop(_, _, _, _, _)
remote_delete_loop(d, agent, target_seq, remaining_len, next_order) ==
    IF remaining_len <= 0 THEN [d |-> d, next_order |-> next_order]
    ELSE LET span == seq_to_order_span(d.client_data[agent], target_seq, remaining_len)
             target_order == span[1]
             tree == d.range_tree
             cursor == get_cursor_before(tree, target_order)
             \* remote_deactivate: the contiguous part of one entry
             deleted_here == Min(span[2], EntryEnd(tree, cursor + 1) - cursor)
             was_active == tree[cursor + 1].activated
             pos == count_pos(tree, cursor)
             d1 == IF was_active
                   THEN [d EXCEPT
                           !.range_tree = SetActivated(@, cursor, deleted_here, FALSE),
                           !.text_content = RemoveRange(@, pos, deleted_here)]
                   ELSE [d EXCEPT
                           !.double_deletes =
                               increment_delete_range(@, target_order, deleted_here)]
             d2 == [d1 EXCEPT !.deletes =
                        AppendDelete(@, next_order, target_order, deleted_here)]
         IN remote_delete_loop(d2, agent, target_seq + deleted_here,
                               remaining_len - deleted_here, next_order + deleted_here)

\* The loop over txn.ops. content is the rest of txn.ins_content.
RECURSIVE apply_remote_ops(_, _, _, _, _)
apply_remote_ops(d, agent, ops, content, next_order) ==
    IF Len(ops) = 0 THEN d
    ELSE LET op == Head(ops)
         IN IF op.kind = "Ins"
            THEN LET item == [order |-> next_order,
                              origin_left |-> remote_id_to_order(d, op.origin_left),
                              origin_right |-> remote_id_to_order(d, op.origin_right),
                              len |-> op.len]
                     ins_here == IF op.content_known THEN SubSeq(content, 1, op.len)
                                 ELSE <<>>
                     remainder == IF op.content_known
                                  THEN SubSeq(content, op.len + 1, Len(content))
                                  ELSE content
                 IN apply_remote_ops(
                        integrate(d, agent, item, ins_here, op.content_known, -1),
                        agent, Tail(ops), remainder, next_order + op.len)
            ELSE LET r == remote_delete_loop(d, get_agent_id(d, op.id.agent),
                                             op.id.seq, op.len, next_order)
                 IN apply_remote_ops(r.d, agent, Tail(ops), content, r.next_order)

RECURSIVE SumOpLen(_)
SumOpLen(ops) == IF Len(ops) = 0 THEN 0 ELSE Head(ops).len + SumOpLen(Tail(ops))

apply_remote_txn(d, txn) ==
    LET d0 == get_or_create_agent_id(d, txn.id.agent)
        agent == get_agent_id(d0, txn.id.agent)
        first_order == get_next_order(d0)
        txn_len == SumOpLen(txn.ops)
        d1 == assign_order_to_client(d0, agent, txn.id.seq, first_order, txn_len)
        d2 == apply_remote_ops(d1, agent, txn.ops, txn.ins_content, first_order)
        parents == [k \in 1..Len(txn.parents) |-> remote_id_to_order(d2, txn.parents[k])]
    IN insert_txn(d2, TRUE, parents, first_order, txn_len)

\* The n visible items from the cursor on: what local_deactivate flips.
RECURSIVE VisibleFrom(_, _, _)
VisibleFrom(tree, i, n) ==
    IF n = 0 THEN <<>>
    ELSE IF tree[i].activated THEN <<i>> \o VisibleFrom(tree, i + 1, n - 1)
    ELSE VisibleFrom(tree, i + 1, n)

RECURSIVE AppendDeletes(_, _, _, _)
AppendDeletes(deletes, tree, idxs, next_order) ==
    IF Len(idxs) = 0 THEN deletes
    ELSE AppendDeletes(AppendDelete(deletes, next_order, tree[Head(idxs)].order, 1),
                       tree, Tail(idxs), next_order + 1)

\* apply_local_txn whose delete marks the items and leaves the text alone.
apply_local_txn_keep_text(d, agent, pos, ins_content, del_span) ==
    LET first_order == get_next_order(d)
        ins_len == Len(ins_content)
        txn_span == del_span + ins_len
        d1 == assign_order_to_client(d, agent, get_next_seq(d.client_data[agent]),
                                     first_order, txn_span)
        tree1 == d1.range_tree
        gone == VisibleFrom(tree1, cursor_at_content_pos(tree1, pos) + 1, del_span)
        d2 == IF del_span > 0
              THEN [d1 EXCEPT
                      !.range_tree = [i \in 1..Len(tree1) |->
                            IF Contains(gone, i) THEN [tree1[i] EXCEPT !.activated = FALSE]
                            ELSE tree1[i]],
                      !.deletes = AppendDeletes(@, tree1, gone, first_order)]
              ELSE d1
        tree2 == d2.range_tree
        left_idx == cursor_at_content_pos(tree2, pos - 1) + 1
        cursor == IF pos = 0 THEN 0 ELSE left_idx
        item == [order |-> first_order + del_span,
                 origin_left |-> IF pos = 0 THEN ROOT_ORDER ELSE tree2[left_idx].order,
                 origin_right |-> get_item(tree2, cursor), len |-> ins_len]
        d3 == IF ins_len > 0 THEN integrate(d2, agent, item, ins_content, TRUE, cursor)
              ELSE d2
    IN insert_txn(d3, FALSE, <<>>, first_order, txn_span)

\* apply_local_txn for one LocalOp [pos, ins_content, del_span].
apply_local_txn(d, agent, pos, ins_content, del_span) ==
    LET first_order == get_next_order(d)
        ins_len == Len(ins_content)
        txn_span == del_span + ins_len
        d1 == assign_order_to_client(d, agent, get_next_seq(d.client_data[agent]),
                                     first_order, txn_span)
        tree1 == d1.range_tree
        gone == VisibleFrom(tree1, cursor_at_content_pos(tree1, pos) + 1, del_span)
        d2 == IF del_span > 0
              THEN [d1 EXCEPT
                      !.range_tree = [i \in 1..Len(tree1) |->
                            IF Contains(gone, i) THEN [tree1[i] EXCEPT !.activated = FALSE]
                            ELSE tree1[i]],
                      !.deletes = AppendDeletes(@, tree1, gone, first_order),
                      !.text_content = RemoveRange(@, pos, del_span)]
              ELSE d1
        tree2 == d2.range_tree
        order == first_order + del_span
        left_idx == cursor_at_content_pos(tree2, pos - 1) + 1
        origin_left == IF pos = 0 THEN ROOT_ORDER ELSE tree2[left_idx].order
        cursor == IF pos = 0 THEN 0 ELSE left_idx
        item == [order |-> order, origin_left |-> origin_left,
                 origin_right |-> get_item(tree2, cursor), len |-> ins_len]
        d3 == IF ins_len > 0 THEN integrate(d2, agent, item, ins_content, TRUE, cursor)
              ELSE d2
    IN insert_txn(d3, FALSE, <<>>, first_order, txn_span)

local_insert(d, agent, pos, ins_content) == apply_local_txn(d, agent, pos, ins_content, 0)
local_delete(d, agent, pos, del_span) == apply_local_txn(d, agent, pos, <<>>, del_span)

(***************************************************************************)
(* Export and replication (src/list/external_txn.rs)                       *)
(***************************************************************************)
crdt_loc_to_remote_id(d, loc) ==
    [agent |-> IF loc.agent = ROOT_AGENT THEN "ROOT" ELSE d.client_data[loc.agent].name,
     seq |-> loc.seq]

order_to_remote_id(d, order) == crdt_loc_to_remote_id(d, get_crdt_location(d, order))

\* Returns <<RemoteId, len>>.
order_to_remote_id_span(d, order, max_size) ==
    LET crdt_span == get_crdt_span(d, order, max_size)
    IN <<crdt_loc_to_remote_id(d, crdt_span), crdt_span.len>>

\* get_vector_clock that names every agent of the table.
get_vector_clock_all_agents(d) ==
    [k \in 1..Len(d.client_data) |->
        [agent |-> d.client_data[k].name, seq |-> get_next_seq(d.client_data[k])]]

get_vector_clock(d) ==
    LET known == SelectSeq(d.client_data, LAMBDA c : Len(c.item_orders) > 0)
    IN [k \in 1..Len(known) |->
            [agent |-> known[k].name, seq |-> get_next_seq(known[k])]]

\* Rle::append that never merges.
AppendOrderSpanUnmerged(r, span) == Append(r, span)

\* Rle::append of an OrderSpan <<order, len>>.
AppendOrderSpan(r, span) ==
    IF Len(r) > 0 /\ Last(r)[1] + Last(r)[2] = span[1]
    THEN [r EXCEPT ![Len(r)] = <<@[1], @[2] + span[2]>>]
    ELSE Append(r, span)

\* The seq the clock names for an agent, 0 when it names none.
ClockSeq(vv, name) ==
    IF \E k \in 1..Len(vv) : vv[k].agent = name
    THEN vv[CHOOSE k \in 1..Len(vv) : vv[k].agent = name].seq
    ELSE 0

\* Rle::search: the index of the entry holding seq, else where it would go.
SearchSeq(io, seq) ==
    Cardinality({i \in 1..Len(io) : io[i][1] + io[i][3] <= seq}) + 1

\* The pop loop of get_versions_since over the min-heap of OpSpans.
RECURSIVE versions_since_loop(_, _, _)
versions_since_loop(d, heap, result) ==
    IF heap = {} THEN result
    ELSE LET e == CHOOSE x \in heap : \A y \in heap : x.next_order <= y.next_order
             io == d.client_data[e.agent_id].item_orders
             span == io[e.idx]
             out == <<Max(span[2], e.next_order), span[3] - (e.next_order - span[2])>>
             requeue == IF e.idx + 1 <= Len(io)
                        THEN {[agent_id |-> e.agent_id, next_order |-> io[e.idx + 1][2],
                               idx |-> e.idx + 1]}
                        ELSE {}
         IN versions_since_loop(d, (heap \ {e}) \cup requeue,
                                AppendOrderSpan(result, out))

\* get_versions_since that starts every agent at the head of the entry found.
get_versions_since_entry_start(d, vv) ==
    LET Start(agent_id) ==
            LET c == d.client_data[agent_id]
                idx == SearchSeq(c.item_orders, ClockSeq(vv, c.name))
            IN [agent_id |-> agent_id, next_order |-> c.item_orders[idx][2], idx |-> idx]
        heap == {Start(agent_id) : agent_id \in
                    {i \in 1..Len(d.client_data) :
                        SearchSeq(d.client_data[i].item_orders,
                                  ClockSeq(vv, d.client_data[i].name))
                            <= Len(d.client_data[i].item_orders)}}
    IN versions_since_loop(d, heap, <<>>)

get_versions_since(d, vv) ==
    LET Start(agent_id) ==
            LET c == d.client_data[agent_id]
                from_seq == ClockSeq(vv, c.name)
                idx == SearchSeq(c.item_orders, from_seq)
                entry == c.item_orders[idx]
            IN [agent_id |-> agent_id,
                next_order |-> entry[2] + Max(from_seq - entry[1], 0),
                idx |-> idx]
        heap == {Start(agent_id) : agent_id \in
                    {i \in 1..Len(d.client_data) :
                        SearchSeq(d.client_data[i].item_orders,
                                  ClockSeq(vv, d.client_data[i].name))
                            <= Len(d.client_data[i].item_orders)}}
    IN versions_since_loop(d, heap, <<>>)

\* Rle::find on deletes: 0 when the order is not a delete.
FindDelete(d, order) ==
    IF \E i \in 1..Len(d.deletes) :
            d.deletes[i][1] <= order /\ order < d.deletes[i][1] + d.deletes[i][3]
    THEN CHOOSE i \in 1..Len(d.deletes) :
            d.deletes[i][1] <= order /\ order < d.deletes[i][1] + d.deletes[i][3]
    ELSE 0

\* The while loop of next_remote_txn_from_order. Returns [ops, ins_content].
RECURSIVE remote_ops_loop(_, _, _, _, _)
remote_ops_loop(d, order, len_remaining, ops, ins_content) ==
    IF len_remaining <= 0 THEN [ops |-> ops, ins_content |-> ins_content]
    ELSE LET di == FindDelete(d, order)
         IN IF di # 0
            THEN LET del == d.deletes[di]
                     offset == order - del[1]
                     len_limit_2 == Min(del[3] - offset, len_remaining)
                     r == order_to_remote_id_span(d, del[2] + offset, len_limit_2)
                 IN remote_ops_loop(d, order + r[2], len_remaining - r[2],
                        Append(ops, [kind |-> "Del", id |-> r[1], len |-> r[2]]),
                        ins_content)
            ELSE LET tree == d.range_tree
                     cursor == get_cursor_before(tree, order)
                     entry == tree[cursor + 1]
                     len == Min(EntryEnd(tree, cursor + 1) - cursor, len_remaining)
                     content_known == entry.activated
                     pos == count_pos(tree, cursor)
                     content == SubSeq(d.text_content, pos + 1, pos + len)
                 IN remote_ops_loop(d, order + len, len_remaining - len,
                        Append(ops, [kind |-> "Ins",
                                     origin_left |-> order_to_remote_id(d, entry.origin_left),
                                     origin_right |-> order_to_remote_id(d, entry.origin_right),
                                     len |-> len,
                                     content_known |-> content_known]),
                        IF content_known THEN ins_content \o content ELSE ins_content)

\* next_remote_txn_from_order that names the entry's parents also for a txn
\* starting inside the entry.
next_remote_txn_entry_parents(d, span) ==
    LET txn == find(d.txns, span[1])
        offset == span[1] - txn.span[1]
        parents == [k \in 1..Len(txn.parents) |-> order_to_remote_id(d, txn.parents[k])]
        len0 == Min(span[2], (txn.span[2] - txn.span[1]) - offset)
        r == order_to_remote_id_span(d, span[1], len0)
        body == remote_ops_loop(d, span[1], r[2], <<>>, <<>>)
    IN [txn |-> [id |-> r[1], parents |-> parents, ops |-> body.ops,
                 ins_content |-> body.ins_content],
        len |-> r[2]]

\* span is <<order, len>>. Returns [txn, len].
next_remote_txn_from_order(d, span) ==
    LET txn == find(d.txns, span[1])
        offset == span[1] - txn.span[1]
        parents == IF offset > 0 THEN <<order_to_remote_id(d, span[1] - 1)>>
                   ELSE [k \in 1..Len(txn.parents) |->
                            order_to_remote_id(d, txn.parents[k])]
        len0 == Min(span[2], (txn.span[2] - txn.span[1]) - offset)
        r == order_to_remote_id_span(d, span[1], len0)
        body == remote_ops_loop(d, span[1], r[2], <<>>, <<>>)
    IN [txn |-> [id |-> r[1], parents |-> parents, ops |-> body.ops,
                 ins_content |-> body.ins_content],
        len |-> r[2]]

RECURSIVE copy_txn_range_into(_, _, _)
copy_txn_range_into(d, dst, span) ==
    IF span[2] <= 0 THEN dst
    ELSE LET r == next_remote_txn_from_order(d, span)
         IN copy_txn_range_into(d, apply_remote_txn(dst, r.txn),
                                <<span[1] + r.len, span[2] - r.len>>)

RECURSIVE copy_ranges_into(_, _, _)
copy_ranges_into(d, dst, order_ranges) ==
    IF Len(order_ranges) = 0 THEN dst
    ELSE copy_ranges_into(d, copy_txn_range_into(d, dst, Head(order_ranges)),
                          Tail(order_ranges))

replicate_into(d, dst) ==
    copy_ranges_into(d, dst, get_versions_since(d, get_vector_clock(dst)))

(***************************************************************************)
(* The replica system                                                      *)
(*   docs.a, docs.b    editing replicas of agents "a" and "b"              *)
(*   docs.reader       a replica fed remote txns in any causal order       *)
(*   docs.server       a replica fed every txn in the order of export      *)
(*   log               the RemoteTxns exported so far, in order            *)
(*   dest              the destination of the last replicate_into          *)
(***************************************************************************)
MaxOrder == 4
MaxIns == 2
Authors == {"a", "b"}
Reader == "reader"
Server == "server"
\* An editing replica goes by the name of its agent.
AuthorName(r) == r

\* The characters an agent types, by seq: all distinct, none the filler.
Alphabet ==
    [a |-> <<"a", "b", "c", "d", "e", "f", "g", "h">>,
     b |-> <<"p", "q", "r", "s", "t", "u", "v", "w">>]
Typed(name, seq, n) == [k \in 1..n |-> Alphabet[name][seq + k]]

NoDest == [op |-> "none", src |-> "none", doc |-> NewDoc]

OwnSeq(d, name) ==
    LET agent == get_agent_id(d, name)
    IN IF agent = 0 THEN 0 ELSE get_next_seq(d.client_data[agent])

Authored == OwnSeq(docs["a"], "a") + OwnSeq(docs["b"], "b")

RECURSIVE ExportedSeq(_, _)
ExportedSeq(l, name) ==
    IF Len(l) = 0 THEN 0
    ELSE (IF Head(l).id.agent = name THEN SumOpLen(Head(l).ops) ELSE 0)
         + ExportedSeq(Tail(l), name)

KnowsId(d, id) ==
    IF id.agent = "ROOT" THEN TRUE
    ELSE IF get_agent_id(d, id.agent) = 0 THEN FALSE
    ELSE KnowsSeq(d.client_data[get_agent_id(d, id.agent)], id.seq)

\* What apply_remote_txn requires of its caller: the txn is the agent's next,
\* and its parents are here already.
Ready(d, txn) ==
    /\ OwnSeq(d, txn.id.agent) = txn.id.seq
    /\ \A k \in 1..Len(txn.parents) : KnowsId(d, txn.parents[k])

LocalInsert(r, pos, n) ==
    /\ dest.op = "none"
    /\ Authored + n <= MaxOrder
    /\ pos <= Len(docs[r].text_content)
    /\ docs' = [docs EXCEPT ![r] =
            local_insert(@, get_agent_id(@, AuthorName(r)), pos,
                         Typed(AuthorName(r), OwnSeq(@, AuthorName(r)), n))]
    /\ UNCHANGED <<log, dest, rope, list_branch, cgvars>>

LocalDelete(r, pos, n) ==
    /\ dest.op = "none"
    /\ Authored + n <= MaxOrder
    /\ pos + n <= Len(docs[r].text_content)
    /\ docs' = [docs EXCEPT ![r] =
            local_delete(@, get_agent_id(@, AuthorName(r)), pos, n)]
    /\ UNCHANGED <<log, dest, rope, list_branch, cgvars>>

\* One round of copy_txn_range_into from an editing replica to the server:
\* the next unexported txn of the replica's agent.
Export(r) ==
    LET d == docs[r]
        name == AuthorName(r)
        seq == ExportedSeq(log, name)
        client == d.client_data[get_agent_id(d, name)]
        span == seq_to_order_span(client, seq, get_next_seq(client) - seq)
        out == next_remote_txn_from_order(d, span)
    IN /\ dest.op = "none"
       /\ seq < OwnSeq(d, name)
       /\ log' = Append(log, out.txn)
       /\ docs' = [docs EXCEPT ![Server] = apply_remote_txn(@, out.txn)]
       /\ UNCHANGED <<dest, rope, list_branch, cgvars>>

Deliver(r, i) ==
    /\ dest.op = "none"
    /\ log[i].id.agent # r
    /\ Ready(docs[r], log[i])
    /\ docs' = [docs EXCEPT ![r] = apply_remote_txn(@, log[i])]
    /\ UNCHANGED <<log, dest, rope, list_branch, cgvars>>

ReplicateInto(r) ==
    /\ dest.op = "none"
    /\ dest' = [op |-> "replicated", src |-> r, doc |-> replicate_into(docs[r], NewDoc)]
    /\ UNCHANGED <<docs, log, rope, list_branch, cgvars>>

Drop ==
    /\ dest.op # "none"
    /\ dest' = NoDest
    /\ UNCHANGED <<docs, log, rope, list_branch, cgvars>>

Next ==
    \/ \E r \in Authors, n \in 1..MaxIns, pos \in 0..MaxOrder : LocalInsert(r, pos, n)
    \/ \E r \in Authors, n \in 1..MaxIns, pos \in 0..MaxOrder : LocalDelete(r, pos, n)
    \/ \E r \in Authors : Export(r)
    \/ \E r \in Authors \cup {Reader}, i \in 1..Len(log) : Deliver(r, i)

Init ==
    /\ docs = [a |-> get_or_create_agent_id(NewDoc, "a"),
               b |-> get_or_create_agent_id(NewDoc, "b"),
               reader |-> NewDoc, server |-> NewDoc]
    /\ log = <<>>
    /\ dest = NoDest
    /\ rope = <<>>
    /\ list_branch = [version |-> <<>>, content |-> <<>>]
    /\ graph = <<>>
    /\ ret = NoRet

Spec == Init /\ [][Next]_vars

\* The editing replicas and the server alone, each replicated into an empty
\* replica at any moment.
NextRep ==
    \/ \E r \in Authors, n \in 1..MaxIns, pos \in 0..MaxOrder : LocalInsert(r, pos, n)
    \/ \E r \in Authors, n \in 1..MaxIns, pos \in 0..MaxOrder : LocalDelete(r, pos, n)
    \/ \E r \in Authors : Export(r)
    \/ \E r \in Authors, i \in 1..Len(log) : Deliver(r, i)
    \/ \E r \in Authors \cup {Server} : ReplicateInto(r)
    \/ Drop

SpecRep == Init /\ [][NextRep]_vars

(***************************************************************************)
(* One replica against a plain buffer (fuzzer.rs: random_single_document)  *)
(***************************************************************************)
MaxLocalOrder == 5

\* make_random_change, the insert arm: the same insert on the rope and the doc.
RandomInsert(pos, n) ==
    /\ get_next_order(docs[1]) + n <= MaxLocalOrder
    /\ pos <= Len(docs[1].text_content)
    /\ rope' = InsertAt(rope, pos, Typed("a", get_next_order(docs[1]), n))
    /\ docs' = [docs EXCEPT ![1] =
            local_insert(@, 1, pos, Typed("a", get_next_order(@), n))]
    /\ UNCHANGED <<log, dest, list_branch, cgvars>>

\* make_random_change, the delete arm.
RandomDelete(pos, n) ==
    /\ get_next_order(docs[1]) + n <= MaxLocalOrder
    /\ pos + n <= Len(docs[1].text_content)
    /\ rope' = RemoveRange(rope, pos, n)
    /\ docs' = [docs EXCEPT ![1] = local_delete(@, 1, pos, n)]
    /\ UNCHANGED <<log, dest, list_branch, cgvars>>

NextLocal ==
    \/ \E pos \in 0..MaxLocalOrder, n \in 1..MaxIns : RandomInsert(pos, n)
    \/ \E pos \in 0..MaxLocalOrder, n \in 1..MaxIns : RandomDelete(pos, n)

InitLocal ==
    /\ docs = <<get_or_create_agent_id(NewDoc, "a")>>
    /\ rope = <<>>
    /\ list_branch = [version |-> <<>>, content |-> <<>>]
    /\ log = <<>>
    /\ dest = NoDest
    /\ graph = <<>>
    /\ ret = NoRet

SpecLocal == InitLocal /\ [][NextLocal]_vars

(***************************************************************************)
(* Claims about the replicas                                               *)
(***************************************************************************)
ClockSet(d) == {get_vector_clock(d)[k] : k \in 1..Len(get_vector_clock(d))}
FrontierIds(d) == {order_to_remote_id(d, d.frontier[k]) : k \in 1..Len(d.frontier)}

\* C1: convergence. Whenever the replica fed in any causal order and the
\* replica fed in export order have applied the same set of remote txns, they
\* hold the same text and the same frontier, as a set of agent-scoped ids.
C1_Convergence ==
    ClockSet(docs[Reader]) = ClockSet(docs[Server])
        => /\ docs[Reader].text_content = docs[Server].text_content
           /\ FrontierIds(docs[Reader]) = FrontierIds(docs[Server])

\* Both agents typed concurrently, and the reader applied the txns in another
\* order than the server.
C1_Witness ==
    /\ ClockSet(docs[Reader]) = ClockSet(docs[Server])
    /\ Len(log) >= 2
    /\ Len(docs[Reader].client_data) = 2
    /\ docs[Reader].client_data[1].name # docs[Server].client_data[1].name
    /\ Len(docs[Reader].text_content) >= 2
    /\ Cardinality(FrontierIds(docs[Reader])) = 2

SameGraph(x, y) ==
    /\ x.text_content = y.text_content
    /\ x.frontier = y.frontier
    /\ x.txns = y.txns
    /\ x.deletes = y.deletes

\* C2: replication round trip. replicate_into an empty replica leaves it with
\* the source's text, frontier, txn entries and delete records; and while only
\* one agent has edited, the server that applied its exported txns holds the
\* frontier, txns, text and deletes of the editing replica.
C2_ReplicateRoundTrip ==
    /\ dest.op = "replicated" => SameGraph(dest.doc, docs[dest.src])
    /\ \A r \in Authors :
        (/\ \A i \in 1..Len(log) : log[i].id.agent = AuthorName(r)
         /\ ExportedSeq(log, AuthorName(r)) = get_next_order(docs[r]))
            => SameGraph(docs[Server], docs[r])

\* The source holds local and remote changes, a delete among them.
C2_Witness ==
    /\ dest.op = "replicated"
    /\ dest.src \in Authors
    /\ Len(docs[dest.src].client_data) = 2
    /\ Len(docs[dest.src].deletes) > 0
    /\ Len(dest.doc.text_content) > 0
    /\ Len(dest.doc.txns) >= 2

\* C3: the text of a replica edited by one agent equals the reference buffer
\* that got the same inserts and deletes, after every step.
C3_MatchesRope == docs[1].text_content = rope

\* Something was deleted and more typed afterwards.
C3_Witness ==
    /\ Len(docs[1].deletes) > 0
    /\ Len(rope) >= 2
    /\ \E i \in 1..Len(docs[1].range_tree) :
          /\ docs[1].range_tree[i].activated
          /\ docs[1].range_tree[i].order > docs[1].deletes[1][1]

\* C5: on every replica the number of visible items of the content tree equals
\* the length of the text, also after inserts of unknown content.
C5_VisibleCountIsTextLength ==
    \A r \in DOMAIN docs :
        content_len(docs[r].range_tree) = Len(docs[r].text_content)

\* A replica holds filler text for an insert whose content it was not told.
C5_Witness ==
    \E r \in DOMAIN docs :
        /\ Contains(docs[r].text_content, FillerChar)
        /\ Len(docs[r].text_content) >= 2

\* The txns of a replica as a causal graph: the root parent is no parent.
GraphOf(d) ==
    [i \in 1..Len(d.txns) |->
        [d.txns[i] EXCEPT !.parents = SelectSeq(@, LAMBDA o : o # ROOT_ORDER)]]
VersionOf(d) == SelectSeq(d.frontier, LAMBDA o : o # ROOT_ORDER)

\* The causal graph of the op log the replica stands for: its parents are
\* frontiers, kept sorted.
OpLogGraph(d) ==
    [i \in 1..Len(d.txns) |->
        [d.txns[i] EXCEPT !.parents = SetToSortedSeq(Range(@) \ {ROOT_ORDER})]]

\* C9: on every replica the frontier contains every order assigned so far.
C9_FrontierContainsAll ==
    \A r \in DOMAIN docs :
        \A lv \in 0..(get_next_order(docs[r]) - 1) :
            version_contains_time(GraphOf(docs[r]), VersionOf(docs[r]), lv)

\* A replica with two concurrent heads after a remote txn.
C9_Witness ==
    \E r \in DOMAIN docs :
        /\ Len(docs[r].frontier) = 2
        /\ get_next_order(docs[r]) >= 3

(***************************************************************************)
(* ListBranch::merge over the operations the server holds                  *)
(* (src/list/merge.rs). TransformedOpsIter and ListOpLog are not part of   *)
(* the sources at hand: the iterator follows the description of the        *)
(* transformed-operations iterator, the op log is the server replica.      *)
(***************************************************************************)
OpKind(d, lv) == IF FindDelete(d, lv) # 0 THEN "Del" ELSE "Ins"

DelTarget(d, lv) ==
    LET del == d.deletes[FindDelete(d, lv)] IN del[2] + (lv - del[1])

\* The item is deleted by a delete among the LVs S.
DeletedIn(d, S, o) ==
    \E lv \in S : OpKind(d, lv) = "Del" /\ DelTarget(d, lv) = o

VisibleIn(d, S, o) == o \in S /\ OpKind(d, o) = "Ins" /\ ~DeletedIn(d, S, o)

\* The visible position of item o in the document made of the LVs S.
PosIn(d, S, o) ==
    Cardinality({i \in 1..(IndexOfOrder(d.range_tree, o) - 1) :
                    VisibleIn(d, S, d.range_tree[i].order)})

\* The character an insert typed (ListOpLog content of the op).
get_content(d, o) ==
    LET loc == get_crdt_location(d, o)
    IN Alphabet[get_agent_name(d, loc.agent)][loc.seq + 1]

\* The CRDT-merged text at a version: the visible items among its history.
MergedTextAt(d, version) ==
    LET S == History(GraphOf(d), version)
        vis == SelectSeq(d.range_tree, LAMBDA it : VisibleIn(d, S, it.order))
    IN [k \in 1..Len(vis) |-> get_content(d, vis[k].order)]

\* The iterator: each LV of merging not in from, in LV order, transformed
\* against the document made of from and what was emitted before.
\* xf is "BaseMoved" (with pos) or "DeleteAlreadyHappened".
RECURSIVE xf_next(_, _, _)
xf_next(d, S, todo) ==
    IF Len(todo) = 0 THEN <<>>
    ELSE LET lv == Head(todo)
             kind == OpKind(d, lv)
             target == IF kind = "Del" THEN DelTarget(d, lv) ELSE lv
             gone == kind = "Del" /\ DeletedIn(d, S, target)
             out == [lv |-> lv, kind |-> kind, len |-> 1,
                     xf |-> IF gone THEN "DeleteAlreadyHappened" ELSE "BaseMoved",
                     pos |-> IF gone THEN 0 ELSE PosIn(d, S, target)]
         IN <<out>> \o xf_next(d, S \cup {lv}, Tail(todo))

\* The LVs of the spans, the last span first.
RECURSIVE LVsReversed(_)
LVsReversed(spans) ==
    IF Len(spans) = 0 THEN <<>>
    ELSE LVsReversed(Tail(spans))
            \o [k \in 1..(Head(spans)[2] - Head(spans)[1]) |-> Head(spans)[1] + k - 1]

\* The pending work set: what the conflict finder visits as only in merging,
\* pushed in reverse so that it reads in LV order.
new_ops(g, from, merging) ==
    LET visits == find_conflicting(g, from, merging).out
        only_b == SelectSeq(visits, LAMBDA v : v[2] = OnlyB)
    IN LVsReversed([k \in 1..Len(only_b) |-> only_b[k][1]])

get_xf_operations_full(d, from, merging) ==
    LET g == OpLogGraph(d)
        had == History(g, from)
    IN xf_next(d, had, new_ops(g, from, merging))

\* The closure of iter_xf_operations_from: (range, Some(op)) for BaseMoved,
\* (range, None) for DeleteAlreadyHappened.
xf_to_text_op(o) ==
    [range |-> <<o.lv, o.lv + o.len>>, some |-> o.xf = "BaseMoved",
     kind |-> o.kind, pos |-> o.pos]

MapXf(ops) == [k \in 1..Len(ops) |-> xf_to_text_op(ops[k])]

\* iter_xf_operations_from without the operations that already happened.
iter_xf_operations_from_skip_none(d, from, merging) ==
    MapXf(SelectSeq(get_xf_operations_full(d, from, merging),
                    LAMBDA o : o.xf = "BaseMoved"))

iter_xf_operations_from(d, from, merging) ==
    MapXf(get_xf_operations_full(d, from, merging))

\* TransformedOpsIter::into_frontier: from, advanced by every LV emitted.
RECURSIVE into_frontier(_, _, _)
into_frontier(g, version, ops) ==
    IF Len(ops) = 0 THEN version
    ELSE into_frontier(g,
            advance_frontier_by(g, version, <<Head(ops).lv, Head(ops).lv + 1>>),
            Tail(ops))

\* The for loop of ListBranch::merge that puts every insert at the end of the
\* text.
RECURSIVE merge_apply_at_end(_, _, _)
merge_apply_at_end(content, d, ops) ==
    IF Len(ops) = 0 THEN content
    ELSE LET op == Head(ops)
             content1 ==
                IF op.xf = "DeleteAlreadyHappened" THEN content
                ELSE IF op.kind = "Ins"
                THEN Append(content, get_content(d, op.lv))
                ELSE RemoveRange(content, op.pos, op.len)
         IN merge_apply_at_end(content1, d, Tail(ops))

\* The for loop of ListBranch::merge over the transformed operations.
RECURSIVE merge_apply(_, _, _)
merge_apply(content, d, ops) ==
    IF Len(ops) = 0 THEN content
    ELSE LET op == Head(ops)
             content1 ==
                IF op.xf = "DeleteAlreadyHappened" THEN content
                ELSE IF op.kind = "Ins"
                THEN InsertAt(content, op.pos, <<get_content(d, op.lv)>>)
                ELSE RemoveRange(content, op.pos, op.len)
         IN merge_apply(content1, d, Tail(ops))

\* ListBranch::merge that takes the merge frontier for its new version.
merge_to_target(b, d, merge_frontier) ==
    LET ops == get_xf_operations_full(d, b.version, merge_frontier)
    IN [version |-> merge_frontier, content |-> merge_apply(b.content, d, ops)]

merge(b, d, merge_frontier) ==
    LET ops == get_xf_operations_full(d, b.version, merge_frontier)
    IN [version |-> into_frontier(OpLogGraph(d), b.version, ops),
        content |-> merge_apply(b.content, d, ops)]

Merge(T) ==
    /\ dest.op = "none"
    /\ list_branch' = merge(list_branch, docs[Server], T)
    /\ UNCHANGED <<docs, log, dest, rope, cgvars>>

\* The op log is written first and merged from afterwards: a merge reads the
\* histories of the two versions only, and appends never change a history.
MaxMergeOrder == 3
Building == list_branch.version = <<>>
Settled ==
    \A r \in Authors :
        /\ ExportedSeq(log, AuthorName(r)) = OwnSeq(docs[r], AuthorName(r))
        /\ get_next_order(docs[r]) = get_next_order(docs[Server])

NextMerge ==
    \/ \E r \in Authors, n \in 1..MaxIns, pos \in 0..MaxOrder :
            Building /\ Authored + n <= MaxMergeOrder /\ LocalInsert(r, pos, n)
    \/ \E r \in Authors, n \in 1..MaxIns, pos \in 0..MaxOrder :
            Building /\ Authored + n <= MaxMergeOrder /\ LocalDelete(r, pos, n)
    \/ \E r \in Authors : Building /\ Export(r)
    \/ \E r \in Authors, i \in 1..Len(log) : Building /\ Deliver(r, i)
    \/ \E T \in Frontiers(GraphOf(docs[Server])) : Settled /\ Merge(T)

SpecMerge == Init /\ [][NextMerge]_vars

\* The version holding the histories of both versions.
UnionOf(g, a, b) ==
    LET H == History(g, a) \cup History(g, b)
    IN SetToSortedSeq({x \in H : \A y \in H : y # x => x \notin HistoryOf(g, {y})})

\* C4, as the code has it: a merge towards T leaves the branch at the version
\* that holds the histories of both its former version and T, with the
\* CRDT-merged text at that version for content; the version is T when T holds
\* the history of the former version.
C4_MergeReachesUnion ==
    [][\A T \in Frontiers(GraphOf(docs[Server])) :
          Merge(T) =>
            LET g == GraphOf(docs[Server])
            IN /\ list_branch'.version = UnionOf(g, list_branch.version, T)
               /\ list_branch'.content = MergedTextAt(docs[Server], list_branch'.version)
               /\ History(g, list_branch.version) \subseteq History(g, T)
                    => list_branch'.version = T]_vars

\* C4, as stated: a merge towards T leaves the branch at version T with the
\* CRDT-merged text at T for content.
C4_MergeReachesTarget ==
    [][\A T \in Frontiers(GraphOf(docs[Server])) :
          Merge(T) =>
            /\ list_branch'.version = T
            /\ list_branch'.content = MergedTextAt(docs[Server], T)]_vars

\* The branch merged two concurrent heads, a delete among the operations.
C4_Witness ==
    /\ Len(list_branch.version) = 2
    /\ Len(list_branch.content) >= 1
    /\ \E lv \in History(GraphOf(docs[Server]), list_branch.version) :
          OpKind(docs[Server], lv) = "Del"

(***************************************************************************)
(* Claims about integrate and the delete bookkeeping                       *)
(***************************************************************************)
\* The name of the agent that created the item at raw position i of d.
NameAt(d, i) == get_agent_name(d, get_crdt_location(d, d.range_tree[i].order).agent)

\* Raw positions i, j hold items of two agents with the same origin_left and
\* the same origin_right.
Siblings(d, i, j) ==
    /\ d.range_tree[i].origin_left = d.range_tree[j].origin_left
    /\ d.range_tree[i].origin_right = d.range_tree[j].origin_right
    /\ NameAt(d, i) # NameAt(d, j)

\* C11: on every replica, of two items by different agents that have the same
\* origin_left and the same origin_right, the one whose agent name is smaller
\* lies to the left, whichever of the two the replica integrated first.
C11_TieBreakByAgentName ==
    \A r \in DOMAIN docs :
        \A i, j \in 1..Len(docs[r].range_tree) :
            (i < j /\ Siblings(docs[r], i, j))
                => NameRank(NameAt(docs[r], i)) < NameRank(NameAt(docs[r], j))

\* A replica integrated the item of the smaller name after its sibling (its
\* order is the larger one), and another replica integrated the same two in
\* the other order.
C11_Witness ==
    \E r, q \in DOMAIN docs :
        /\ \E i, j \in 1..Len(docs[r].range_tree) :
              /\ i < j /\ Siblings(docs[r], i, j)
              /\ docs[r].range_tree[i].order > docs[r].range_tree[j].order
        /\ \E i, j \in 1..Len(docs[q].range_tree) :
              /\ i < j /\ Siblings(docs[q], i, j)
              /\ docs[q].range_tree[i].order < docs[q].range_tree[j].order

\* The orders, in this replica, that the delete operations of a txn name.
RECURSIVE TargetSeq(_, _)
TargetSeq(d, ops) ==
    IF Len(ops) = 0 THEN <<>>
    ELSE LET op == Head(ops)
             client == d.client_data[get_agent_id(d, op.id.agent)]
         IN [k \in 1..op.len |-> seq_to_order(client, op.id.seq + k - 1)]
            \o TargetSeq(d, Tail(ops))

\* The txn holds deletes only, and every character it names is deactivated
\* in d already.
RepeatsDelete(d, txn) ==
    /\ \A k \in 1..Len(txn.ops) : txn.ops[k].kind = "Del"
    /\ \A o \in Range(TargetSeq(d, txn.ops)) :
            ~d.range_tree[IndexOfOrder(d.range_tree, o)].activated

DoubleDeleteCount(d, lv) ==
    IF lv \in DOMAIN d.double_deletes THEN d.double_deletes[lv] ELSE 0

\* The pairs <<order of a delete, order of the character it deletes>>.
DeletePairs(d) ==
    UNION {{<<d.deletes[i][1] + k, d.deletes[i][2] + k>> : k \in 0..(d.deletes[i][3] - 1)}
           : i \in 1..Len(d.deletes)}

\* What a repeated delete txn leaves behind: d before, e after.
RepeatedDeleteDone(d, txn, e) ==
    LET targets == TargetSeq(d, txn.ops)
        first_order == get_next_order(d)
    IN /\ e.range_tree = d.range_tree
       /\ e.text_content = d.text_content
       /\ \A lv \in 0..MaxOrder :
             DoubleDeleteCount(e, lv) =
                DoubleDeleteCount(d, lv) + (IF Contains(targets, lv) THEN 1 ELSE 0)
       /\ DOMAIN e.double_deletes \subseteq 0..MaxOrder
       /\ DeletePairs(e) = DeletePairs(d)
             \cup {<<first_order + k - 1, targets[k]>> : k \in 1..Len(targets)}
       /\ get_next_order(e) = first_order + Len(targets)

\* C12: a remote txn of deletes whose characters are all deactivated already
\* leaves the items and the text as they are, adds one to the double-delete
\* count of exactly the characters it names, and appends its delete records
\* under its own orders.
C12_DoubleDelete ==
    [][/\ \A r \in DOMAIN docs, i \in 1..Len(log) :
            (/\ Ready(docs[r], log[i])
             /\ RepeatsDelete(docs[r], log[i])
             /\ Deliver(r, i))
                => RepeatedDeleteDone(docs[r], log[i], docs'[r])
       /\ \A a \in Authors :
            (/\ Len(log') > Len(log)
             /\ RepeatsDelete(docs[Server], Last(log'))
             /\ Export(a))
                => RepeatedDeleteDone(docs[Server], Last(log'), docs'[Server])]_vars

\* A replica counted a repeated delete of a character.
C12_Witness ==
    \E r \in DOMAIN docs :
        /\ \E lv \in DOMAIN docs[r].double_deletes : docs[r].double_deletes[lv] = 1
        /\ Len(docs[r].deletes) >= 1

(***************************************************************************)
(* SpecErr: calls the caller got wrong                                     *)
(***************************************************************************)
MaxErrOrder == 3

\* The ids one RemoteOp names: the origins of an insert, the characters of a
\* delete.
OpIds(op) ==
    IF op.kind = "Ins" THEN {op.origin_left, op.origin_right}
    ELSE {[agent |-> op.id.agent, seq |-> op.id.seq + k] : k \in 0..(op.len - 1)}

\* apply_remote_txn returns (): it either completes or panics. It panics on
\* assert_eq!(next_seq, txn.id.seq), and on the unwrap of get_agent_id and of
\* item_orders.find when an origin, a delete target or a parent is unknown
\* (the txn's own orders are assigned before its operations are applied).
remote_txn_panics(d, txn) ==
    LET d0 == get_or_create_agent_id(d, txn.id.agent)
        agent == get_agent_id(d0, txn.id.agent)
    IN IF get_next_seq(d0.client_data[agent]) # txn.id.seq THEN TRUE
       ELSE LET d1 == assign_order_to_client(d0, agent, txn.id.seq,
                                             get_next_order(d0), SumOpLen(txn.ops))
            IN IF \E k \in 1..Len(txn.ops) : \E id \in OpIds(txn.ops[k]) : ~KnowsId(d1, id)
               THEN TRUE
               ELSE \E k \in 1..Len(txn.parents) : ~KnowsId(d1, txn.parents[k])

\* apply_local_txn returns () as well. The delete arm removes pos..pos+del_span
\* from the text, and the insert arm unwraps the item at pos - 1: each panics
\* beyond the visible length.
local_txn_panics(d, pos, ins_len, del_span) ==
    LET len == content_len(d.range_tree)
    IN IF del_span > 0 /\ pos + del_span > len THEN TRUE
       ELSE ins_len > 0 /\ pos > 0 /\ pos - 1 >= len - del_span

\* The process is gone after a panic.
Panicked == ret.op # "none" /\ ret.out = "panic"

ErrLocalInsert(r, pos, n) ==
    LET d == docs[r]
        p == local_txn_panics(d, pos, n, 0)
    IN /\ ~Panicked
       /\ Authored + n <= MaxErrOrder
       /\ ret' = [op |-> "local_insert", replica |-> r, pos |-> pos,
                  len |-> content_len(d.range_tree), known |-> TRUE,
                  out |-> IF p THEN "panic" ELSE "ok"]
       /\ docs' = IF p THEN docs
                  ELSE [docs EXCEPT ![r] =
                          local_insert(@, get_agent_id(@, AuthorName(r)), pos,
                                       Typed(AuthorName(r), OwnSeq(@, AuthorName(r)), n))]
       /\ UNCHANGED <<log, dest, rope, list_branch, graph>>

ErrLocalDelete(r, pos, n) ==
    LET d == docs[r]
        p == local_txn_panics(d, pos, 0, n)
    IN /\ ~Panicked
       /\ Authored + n <= MaxErrOrder
       /\ ret' = [op |-> "local_delete", replica |-> r, pos |-> pos,
                  len |-> content_len(d.range_tree), known |-> TRUE,
                  out |-> IF p THEN "panic" ELSE "ok"]
       /\ docs' = IF p THEN docs
                  ELSE [docs EXCEPT ![r] =
                          local_delete(@, get_agent_id(@, AuthorName(r)), pos, n)]
       /\ UNCHANGED <<log, dest, rope, list_branch, graph>>

\* The txn is the agent's next one, and every id it names is here or is its own.
Applicable(d, txn) ==
    /\ OwnSeq(d, txn.id.agent) = txn.id.seq
    /\ \A id \in UNION {OpIds(txn.ops[k]) : k \in 1..Len(txn.ops)}
                \cup Range(txn.parents) :
          IF id.agent = txn.id.agent /\ id.seq >= txn.id.seq
          THEN id.seq < txn.id.seq + SumOpLen(txn.ops)
          ELSE KnowsId(d, id)

\* Any exported txn handed to any editing replica, in any order.
ApplyRemoteTxn(r, i) ==
    LET d == docs[r]
        p == remote_txn_panics(d, log[i])
    IN /\ ~Panicked
       /\ ret' = [op |-> "apply_remote_txn", replica |-> r, pos |-> 0,
                  len |-> content_len(d.range_tree), known |-> Applicable(d, log[i]),
                  out |-> IF p THEN "panic" ELSE "ok"]
       /\ docs' = IF p THEN docs ELSE [docs EXCEPT ![r] = apply_remote_txn(@, log[i])]
       /\ UNCHANGED <<log, dest, rope, list_branch, graph>>

NextErr ==
    \/ \E r \in Authors, n \in 1..MaxIns, pos \in 0..(MaxErrOrder + 1) :
            ErrLocalInsert(r, pos, n)
    \/ \E r \in Authors, n \in 1..MaxIns, pos \in 0..(MaxErrOrder + 1) :
            ErrLocalDelete(r, pos, n)
    \/ \E r \in Authors : ~Panicked /\ Export(r)
    \/ \E r \in Authors, i \in 1..Len(log) : ApplyRemoteTxn(r, i)

SpecErr == Init /\ [][NextErr]_vars

\* C13: a remote txn that is not the agent's next one, or that names an id
\* the replica does not know, comes back to the caller as a MissingSeq or
\* MissingParent error.
C13_MissingIsReturned ==
    (ret.op = "apply_remote_txn" /\ ~ret.known)
        => ret.out \in {"MissingSeq", "MissingParent"}

\* C14: a local insert or delete at a position beyond the visible length comes
\* back to the caller as an OutOfBounds error.
C14_OutOfBoundsIsReturned ==
    (ret.op \in {"local_insert", "local_delete"} /\ ret.pos > ret.len)
        => ret.out = "OutOfBounds"

(***************************************************************************)
(* src/causalgraph/parents/subgraph.rs                                     *)
(***************************************************************************)
\* A QueueEntry is [target_parent, children]; children are indexes into
\* result_rev (from 1 here, from 0 in the source).
RECURSIVE LexLess(_, _)
LexLess(a, b) ==
    IF Len(b) = 0 THEN FALSE
    ELSE IF Len(a) = 0 THEN TRUE
    ELSE IF a[1] # b[1] THEN a[1] < b[1]
    ELSE LexLess(Tail(a), Tail(b))

\* derive(PartialOrd, Ord) on QueueEntry: by target_parent, then by children.
QELess(x, y) ==
    IF x.target_parent # y.target_parent THEN x.target_parent < y.target_parent
    ELSE LexLess(x.children, y.children)

\* The index of the entry BinaryHeap::peek / pop returns.
QEPeekIdx(q) == CHOOSE i \in 1..Len(q) : \A j \in 1..Len(q) : ~QELess(q[i], q[j])

push_light_dedup(f, new_item) ==
    IF Len(f) > 0 /\ Last(f) = new_item THEN f ELSE Append(f, new_item)

\* for idx in children { push_light_dedup(&mut result_rev[idx].parents, p) }
RECURSIVE sg_add_parent(_, _, _)
sg_add_parent(res, idxs, p) ==
    IF Len(idxs) = 0 THEN res
    ELSE sg_add_parent([res EXCEPT ![Head(idxs)].parents = push_light_dedup(@, p)],
                       Tail(idxs), p)

\* Case 1: pull out of the queue what is within this txn and this filter.
RECURSIVE sg_pull_within(_, _, _, _)
sg_pull_within(queue, res, base, filter_end) ==
    IF Len(queue) = 0 THEN [queue |-> queue, res |-> res]
    ELSE LET i == QEPeekIdx(queue)
             peeked_target == Min(queue[i].target_parent, filter_end - 1)
         IN IF queue[i].target_parent < base THEN [queue |-> queue, res |-> res]
            ELSE sg_pull_within(RemoveAt(queue, i),
                                sg_add_parent(res, queue[i].children, peeked_target),
                                base, filter_end)

RECURSIVE sg_push_new(_, _)
sg_push_new(child_idxs, idxs) ==
    IF Len(idxs) = 0 THEN child_idxs
    ELSE sg_push_new(IF Contains(child_idxs, Head(idxs)) THEN child_idxs
                     ELSE Append(child_idxs, Head(idxs)),
                     Tail(idxs))

\* Case 2: gather the children of every queue entry within this txn.
RECURSIVE sg_merge_children(_, _, _)
sg_merge_children(queue, child_idxs, txn_start) ==
    IF Len(queue) = 0 THEN [queue |-> queue, child_idxs |-> child_idxs]
    ELSE LET i == QEPeekIdx(queue)
         IN IF queue[i].target_parent < txn_start
            THEN [queue |-> queue, child_idxs |-> child_idxs]
            ELSE sg_merge_children(RemoveAt(queue, i),
                                   sg_push_new(child_idxs, queue[i].children),
                                   txn_start)

\* while filter.start > entry.target_parent { next filter or break 'txn_loop }
\* rf is the reversed filter, fi the index of the current filter in it.
RECURSIVE sg_skip_filter(_, _, _)
sg_skip_filter(rf, fi, target) ==
    IF rf[fi][1] > target
    THEN IF fi < Len(rf) THEN sg_skip_filter(rf, fi + 1, target)
         ELSE [fi |-> fi, found |-> FALSE]
    ELSE [fi |-> fi, found |-> TRUE]

sg_push_parents(queue, txn, children) ==
    queue \o [k \in 1..Len(txn.parents) |->
                [target_parent |-> txn.parents[k], children |-> children]]

\* Case 2 that stops the walk at a txn the filter leaves out.
sg_filtered_out_stop(st, entry, txn) == st

\* Case 2: the remainder of this txn is filtered out.
sg_filtered_out(st, entry, txn) ==
    LET m == sg_merge_children(st.queue, entry.children, txn.span[1])
    IN [st EXCEPT !.queue = sg_push_parents(m.queue, txn, m.child_idxs)]

\* 'txn_loop, for one popped entry. st is [queue, res, fi].
RECURSIVE sg_txn_loop(_, _, _, _)
sg_txn_loop(rf, st, entry, txn) ==
    LET sk == sg_skip_filter(rf, st.fi, entry.target_parent)
        st1 == [st EXCEPT !.fi = sk.fi]
        filter == rf[sk.fi]
    IN IF ~sk.found THEN sg_filtered_out(st1, entry, txn)
       ELSE IF filter[2] <= txn.span[1] THEN sg_filtered_out(st1, entry, txn)
       ELSE LET p == Min(entry.target_parent, filter[2] - 1)
                idx_here == Len(st.res) + 1
                res1 == sg_add_parent(st.res, entry.children, p)
                base == Max(filter[1], txn.span[1])
                pulled == sg_pull_within(st.queue, res1, base, filter[2])
                res2 == Append(pulled.res, [span |-> <<base, p + 1>>,
                                            shadow |-> txn.shadow,
                                            parents |-> <<>>])
            IN IF filter[1] > txn.span[1]
               THEN sg_txn_loop(rf, [queue |-> pulled.queue, res |-> res2, fi |-> sk.fi],
                                [target_parent |-> filter[1] - 1,
                                 children |-> <<idx_here>>], txn)
               ELSE [queue |-> sg_push_parents(pulled.queue, txn, <<idx_here>>),
                     res |-> res2, fi |-> sk.fi]

\* 'outer: while let Some(entry) = queue.pop()
RECURSIVE sg_outer(_, _, _)
sg_outer(g, rf, st) ==
    IF Len(st.queue) = 0 THEN st
    ELSE LET i == QEPeekIdx(st.queue)
             entry == st.queue[i]
             txn == find(g, entry.target_parent)
         IN sg_outer(g, rf, sg_txn_loop(rf, [st EXCEPT !.queue = RemoveAt(@, i)],
                                        entry, txn))

Reverse(s) == [k \in 1..Len(s) |-> s[Len(s) + 1 - k]]

\* find_dominators that keeps the greatest LV alone.
find_dominators_last(g, lvs) ==
    IF Len(lvs) = 0 THEN <<>> ELSE <<Last(SetToSortedSeq(Range(lvs)))>>

\* find_dominators: each input LV is removed from the frontier if it is
\* reachable from another element of it.
RECURSIVE fd_loop(_, _, _, _)
fd_loop(g, lvs, k, frontier) ==
    IF k > Len(lvs) THEN frontier
    ELSE LET x == lvs[k]
             others == SelectSeq(frontier, LAMBDA y : y # x)
         IN fd_loop(g, lvs, k + 1,
                    IF \E j \in 1..Len(others) :
                            version_contains_time(g, <<others[j]>>, x)
                    THEN others ELSE frontier)

find_dominators(g, lvs) == SetToSortedSeq(Range(fd_loop(g, lvs, 1, lvs)))

\* rev_filter_iter is the filter, last range first.
subgraph_raw(g, rev_filter_iter, parents) ==
    LET st0 == [queue |-> [k \in 1..Len(parents) |->
                              [target_parent |-> parents[k], children |-> <<>>]],
                res |-> <<>>, fi |-> 1]
        result_rev == IF Len(rev_filter_iter) = 0 THEN <<>>
                      ELSE sg_outer(g, rev_filter_iter, st0).res
        result == Reverse(result_rev)
    IN [k \in 1..Len(result) |->
            IF Len(result[k].parents) >= 2
            THEN [result[k] EXCEPT !.parents = find_dominators(g, Reverse(@))]
            ELSE result[k]]

subgraph(g, filter, parents) == subgraph_raw(g, Reverse(filter), parents)

(***************************************************************************)
(* SpecSub: a causal graph grown by pushes, projected by subgraph          *)
(***************************************************************************)
\* Every filter: ascending, disjoint, non-empty ranges within lo..n.
RECURSIVE FiltersFrom(_, _)
FiltersFrom(lo, n) ==
    {<<>>} \cup UNION {{<<<<start, end>>>> \o rest : rest \in FiltersFrom(end, n)}
                       : <<start, end>> \in {x \in (lo..n) \X (lo..n) : x[1] < x[2]}}

Subgraph(filter, frontier) ==
    /\ ret.op = "none"
    /\ ret' = [op |-> "subgraph", a |-> filter, b |-> frontier, t |-> 0,
               out |-> subgraph(graph, filter, frontier)]
    /\ UNCHANGED <<graph, docvars>>

FindDominators(lvs) ==
    /\ ret.op = "none"
    /\ ret' = [op |-> "find_dominators", a |-> lvs, b |-> <<>>, t |-> 0,
               out |-> find_dominators(graph, lvs)]
    /\ UNCHANGED <<graph, docvars>>

NextSub ==
    \/ \E p \in Frontiers(graph), len \in 1..MaxSpan : Push(p, len)
    \/ \E filter \in FiltersFrom(0, MaxLV), frontier \in Frontiers(graph) :
            Subgraph(filter, frontier)
    \/ \E F \in SUBSET (0..NextLV(graph) - 1) : FindDominators(SetToSortedSeq(F))
    \/ Return

SpecSub == InitCG /\ [][NextSub]_vars

\* C15: the entries of subgraph(filter, frontier) are ascending, disjoint and
\* cover exactly the LVs of diff([], frontier) that the filter allows; there
\* are none when the filter allows none of them.
C15_SubgraphSpans ==
    ret.op = "subgraph" =>
        LET spans == [k \in 1..Len(ret.out) |-> ret.out[k].span]
            want == Covered(diff(graph, <<>>, ret.b)[2]) \cap Covered(ret.a)
        IN /\ CoversOnce(spans, want)
           /\ \A k \in 1..Len(spans) : spans[k][1] < spans[k][2]
           /\ \A k \in 1..Len(spans) - 1 : spans[k][2] <= spans[k + 1][1]
           /\ want = {} => ret.out = <<>>

\* A projection through a filter of two ranges that starts inside one txn and
\* leaves a whole txn of the history out.
C15_Witness ==
    /\ ret.op = "subgraph"
    /\ Len(ret.a) = 2
    /\ Len(ret.out) >= 2
    /\ \E k \in 1..Len(graph) :
          /\ SpanSet(graph[k].span) \subseteq History(graph, ret.b)
          /\ SpanSet(graph[k].span) \cap Covered(ret.a) = {}
    /\ \E k \in 1..Len(graph) :
          graph[k].span[1] \notin Covered(ret.a) /\ graph[k].span[2] - 1 \in Covered(ret.a)

\* C16: find_dominators(F) is a subset of F, no element of it is reachable
\* from another, it has the history of F, and find_dominators maps it to
\* itself.
C16_FindDominators ==
    ret.op = "find_dominators" =>
        /\ Range(ret.out) \subseteq Range(ret.a)
        /\ IsAntichain(graph, Range(ret.out))
        /\ History(graph, ret.out) = History(graph, ret.a)
        /\ find_dominators(graph, ret.out) = ret.out

\* Dominators of three LVs of which one is reachable from another.
C16_Witness ==
    /\ ret.op = "find_dominators"
    /\ Len(ret.a) >= 3
    /\ Len(ret.out) = 2

(***************************************************************************)
(* Further claims about diff (SpecCG)                                      *)
(***************************************************************************)
\* Non-empty ranges in descending order, each ending strictly below the start
\* of the one before it.
DescendingMerged(spans) ==
    /\ \A k \in 1..Len(spans) : spans[k][1] < spans[k][2]
    /\ \A k \in 1..Len(spans) - 1 : spans[k + 1][2] < spans[k][1]

\* C17: each of the two lists diff(a, b) returns is non-overlapping, strictly
\* descending and merged: no range touches the one before it.
C17_DiffRangesDescendingMerged ==
    ret.op = "diff" => DescendingMerged(ret.out[1]) /\ DescendingMerged(ret.out[2])

\* A diff whose list for b holds two ranges, the first made of more than one
\* run of the walk (it spans two graph entries).
C17_Witness ==
    /\ ret.op = "diff"
    /\ Len(ret.out[2]) >= 2
    /\ \E k \in 1..Len(graph) :
          /\ ret.out[2][1][1] < graph[k].span[1]
          /\ graph[k].span[1] < ret.out[2][1][2]

(***************************************************************************)
(* Claims about the frontier and the txns of a replica (Spec)              *)
(***************************************************************************)
\* C18: the frontier of a replica is <<ROOT>> before its first operation and
\* at no other time; afterwards it is non-empty, in ascending order, and no
\* element of it is reachable from another.
C18_FrontierSortedAntichain ==
    \A r \in DOMAIN docs :
        LET d == docs[r]
        IN IF get_next_order(d) = 0 THEN d.frontier = <<ROOT_ORDER>>
           ELSE /\ Len(d.frontier) >= 1
                /\ ~Contains(d.frontier, ROOT_ORDER)
                /\ IsSorted(d.frontier)
                /\ IsAntichain(GraphOf(d), Range(d.frontier))

\* A replica whose frontier holds two heads, one of its own operations and
\* one of a remote txn, and a replica back at one head after that.
C18_Witness ==
    /\ \E r \in Authors :
          /\ Len(docs[r].frontier) = 2
          /\ Len(docs[r].client_data) = 2
    /\ \E r \in Authors :
          /\ Len(docs[r].frontier) = 1
          /\ \E k \in 1..Len(docs[r].txns) : Len(docs[r].txns[k].parents) = 2

\* The entries tile 0..next_order in order, one LV per inserted or deleted
\* character.
TxnsTile(d) ==
    /\ \A k \in 1..Len(d.txns) : d.txns[k].span[1] < d.txns[k].span[2]
    /\ Len(d.txns) > 0 => d.txns[1].span[1] = 0
    /\ \A k \in 1..Len(d.txns) - 1 : d.txns[k].span[2] = d.txns[k + 1].span[1]
    /\ NextLV(d.txns) = get_next_order(d)
    /\ get_next_order(d) = Len(d.range_tree) + Cardinality(DeletePairs(d))

\* Every parent of an entry is below the entry's first LV (ROOT, the parent
\* of a first entry, is no LV).
ParentsBelow(d) ==
    \A k \in 1..Len(d.txns) :
        \A p \in Range(d.txns[k].parents) \ {ROOT_ORDER} : p < d.txns[k].span[1]

\* Every entry's parents are <<ROOT>> or a sorted antichain of LVs.
ParentsSortedAntichain(d) ==
    \A k \in 1..Len(d.txns) :
        LET parents == d.txns[k].parents
        IN IF parents = <<ROOT_ORDER>> THEN TRUE
           ELSE /\ Len(parents) >= 1
                /\ ~Contains(parents, ROOT_ORDER)
                /\ IsSorted(parents)
                /\ IsAntichain(GraphOf(d), Range(parents))

\* C19: on every replica the txn entries tile 0..next_order in order, one LV
\* per inserted or deleted character; every parent LV is below its entry's
\* first LV; every entry's parents are a sorted antichain, entries made from
\* remote txns included.
C19_TxnsWellFormed ==
    \A r \in DOMAIN docs :
        TxnsTile(docs[r]) /\ ParentsBelow(docs[r]) /\ ParentsSortedAntichain(docs[r])

\* The parents of the LV in the txn entries: the entry's parents at its first
\* LV, the LV before it inside the entry.
EntryParentsAt(txns, lv) ==
    LET e == find(txns, lv)
    IN IF e.span[1] = lv THEN e.parents ELSE <<lv - 1>>

\* What a local operation does to the frontier: d before, e after.
LocalAdvance(d, e) ==
    /\ EntryParentsAt(e.txns, get_next_order(d)) = d.frontier
    /\ e.frontier = <<get_next_order(e) - 1>>

\* What the remote txn applied between d and e does to the frontier; the txn
\* is the one in the log l whose id is the first new order of e.
RemoteAdvance(d, e, l) ==
    LET txn == CHOOSE t \in Range(l) : t.id = order_to_remote_id(e, get_next_order(d))
        P == {remote_id_to_order(e, txn.parents[k]) : k \in 1..Len(txn.parents)}
        last == get_next_order(d) + SumOpLen(txn.ops) - 1
    IN /\ get_next_order(e) = last + 1
       /\ Range(e.frontier) = (Range(d.frontier) \ P) \cup {last}
       /\ Len(e.frontier) = Cardinality(Range(e.frontier))

\* C20: a local operation makes a txn whose parents are the frontier before
\* it and leaves the frontier at its last LV alone; a remote txn with parents
\* P and last LV l leaves the frontier at (old frontier minus P) plus l.
C20_FrontierAdvance ==
    [][\A r \in DOMAIN docs :
          get_next_order(docs'[r]) > get_next_order(docs[r]) =>
             IF OwnSeq(docs'[r], r) > OwnSeq(docs[r], r)
             THEN LocalAdvance(docs[r], docs'[r])
             ELSE RemoteAdvance(docs[r], docs'[r], log')]_vars

\* Two concurrent root txns of different lengths followed by a local insert
\* on the replica that holds both: its entry has the two heads for parents.
C20_Witness ==
    \E r \in Authors :
        LET d == docs[r]
        IN /\ Len(d.txns) = 3
           /\ d.txns[1].parents = <<ROOT_ORDER>>
           /\ d.txns[2].parents = <<ROOT_ORDER>>
           /\ d.txns[1].span[2] - d.txns[1].span[1] # d.txns[2].span[2] - d.txns[2].span[1]
           /\ d.txns[3].parents = <<d.txns[1].span[2] - 1, d.txns[2].span[2] - 1>>
           /\ d.frontier = <<d.txns[3].span[2] - 1>>
           /\ get_crdt_location(d, d.txns[3].span[1]).agent = get_agent_id(d, r)

(***************************************************************************)
(* Orders and agent-scoped ids                                             *)
(***************************************************************************)
\* The (agent, seq) pairs a replica knows.
KnownLocations(d) ==
    {loc \in [agent : 1..Len(d.client_data), seq : 0..MaxOrder] :
        KnowsSeq(d.client_data[loc.agent], loc.seq)}

\* C21: on every replica, every known order maps to an (agent, seq) that maps
\* back to the same order, and every known (agent, seq) maps to an order that
\* maps back to the same (agent, seq).
C21_OrderRoundTrip ==
    \A r \in DOMAIN docs :
        LET d == docs[r]
        IN /\ \A o \in 0..(get_next_order(d) - 1) :
                get_order(d, get_crdt_location(d, o)) = o
           /\ \A loc \in KnownLocations(d) :
                get_crdt_location(d, get_order(d, loc)) = loc

\* A replica where an agent's seqs lie in two separate runs of orders, the
\* second of them two long.
C21_Witness ==
    \E r \in DOMAIN docs :
        LET d == docs[r]
        IN \E a \in 1..Len(d.client_data) :
              /\ Len(d.client_data[a].item_orders) = 2
              /\ d.client_data[a].item_orders[2][3] = 2
              /\ d.client_data[a].item_orders[2][2] # d.client_data[a].item_orders[2][1]

\* The seq ranges of an agent's table: ascending, disjoint, back to back
\* from 0 to next_seq.
SeqRangesArePrefix(c) ==
    LET io == c.item_orders
    IN /\ \A i \in 1..Len(io) : io[i][3] > 0
       /\ Len(io) > 0 => io[1][1] = 0
       /\ \A i \in 1..Len(io) - 1 : io[i][1] + io[i][3] = io[i + 1][1]
       /\ UNION {io[i][1]..(io[i][1] + io[i][3] - 1) : i \in 1..Len(io)}
            = 0..(get_next_seq(c) - 1)

\* The seq ranges of agent `name` on the replica d, as a set of seqs.
SeqsOf(d, name) ==
    LET agent == get_agent_id(d, name)
    IN IF agent = 0 THEN {}
       ELSE LET io == d.client_data[agent].item_orders
            IN UNION {io[i][1]..(io[i][1] + io[i][3] - 1) : i \in 1..Len(io)}

SeqsExtended(d, e, name, n) ==
    LET k == Cardinality(SeqsOf(d, name))
    IN SeqsOf(e, name) = 0..(k + n - 1)

\* C22: for every agent of every replica the seq ranges of its table are
\* disjoint, ascending and cover exactly 0..next_seq-1; a local operation of
\* length n and an accepted remote txn of length n extend the agent's prefix
\* by exactly n.
C22_SeqRangesArePrefix ==
    /\ [](\A r \in DOMAIN docs : \A a \in 1..Len(docs[r].client_data) :
            SeqRangesArePrefix(docs[r].client_data[a]))
    /\ [][/\ \A r \in Authors, n \in 1..MaxIns, pos \in 0..MaxOrder :
               (/\ docs'[r] # docs[r]
                /\ get_next_order(docs'[r]) = get_next_order(docs[r]) + n
                /\ (LocalInsert(r, pos, n) \/ LocalDelete(r, pos, n)))
                   => SeqsExtended(docs[r], docs'[r], AuthorName(r), n)
          /\ \A r \in DOMAIN docs, i \in 1..Len(log) :
               (/\ docs'[r] # docs[r] /\ Ready(docs[r], log[i]) /\ Deliver(r, i))
                   => SeqsExtended(docs[r], docs'[r], log[i].id.agent,
                                   SumOpLen(log[i].ops))
          /\ \A a \in Authors :
               (Len(log') > Len(log) /\ Export(a))
                   => SeqsExtended(docs[Server], docs'[Server], Last(log').id.agent,
                                   SumOpLen(Last(log').ops))]_vars

\* A replica holding a local run and, after it, a remote txn two long of
\* another agent, then a further local run.
C22_Witness ==
    \E r \in Authors :
        LET d == docs[r]
        IN /\ Len(d.client_data) = 2
           /\ Len(d.client_data[1].item_orders) = 2
           /\ Len(d.client_data[2].item_orders) = 1
           /\ d.client_data[2].item_orders[1][3] = 2

(***************************************************************************)
(* Agents and clocks: the queries of a replica, asked at any moment        *)
(***************************************************************************)
MaxClockOrder == 3

\* The id get_or_create_agent_id returns.
agent_id_returned(d, name) ==
    IF name = "ROOT" THEN ROOT_AGENT
    ELSE IF get_agent_id(d, name) # 0 THEN get_agent_id(d, name)
    ELSE Len(d.client_data) + 1

\* The clocks asked about: each of "a" and "b" named with a seq or left out,
\* in either order.
ClockOf(x, sx, y, sy) ==
    (IF sx < 0 THEN <<>> ELSE <<[agent |-> x, seq |-> sx]>>)
        \o (IF sy < 0 THEN <<>> ELSE <<[agent |-> y, seq |-> sy]>>)
Clocks ==
    {ClockOf("a", sa, "b", sb) : sa \in -1..(MaxClockOrder + 1), sb \in -1..(MaxClockOrder + 1)}
        \cup {ClockOf("b", sb, "a", sa) : sa \in 0..1, sb \in 0..1}
        \cup {<<[agent |-> "c", seq |-> 1]>>}

GetOrCreateAgent(r, name) ==
    /\ ret.op = "none"
    /\ dest.op = "none"
    /\ ret' = [op |-> "get_or_create_agent_id", replica |-> r, name |-> name,
               before |-> docs[r], out |-> agent_id_returned(docs[r], name)]
    /\ docs' = [docs EXCEPT ![r] = get_or_create_agent_id(@, name)]
    /\ UNCHANGED <<log, dest, rope, list_branch, graph>>

GetVectorClock(r) ==
    /\ ret.op = "none"
    /\ ret' = [op |-> "get_vector_clock", replica |-> r,
               out |-> get_vector_clock(docs[r])]
    /\ UNCHANGED <<docvars, graph>>

GetVersionsSince(r, vv) ==
    /\ ret.op = "none"
    /\ ret' = [op |-> "get_versions_since", replica |-> r, vv |-> vv,
               out |-> get_versions_since(docs[r], vv)]
    /\ UNCHANGED <<docvars, graph>>

NextClock ==
    \/ \E r \in Authors, n \in 1..MaxIns, pos \in 0..MaxClockOrder :
            ret.op = "none" /\ Authored + n <= MaxClockOrder /\ LocalInsert(r, pos, n)
    \/ \E r \in Authors, n \in 1..MaxIns, pos \in 0..MaxClockOrder :
            ret.op = "none" /\ Authored + n <= MaxClockOrder /\ LocalDelete(r, pos, n)
    \/ \E r \in Authors : ret.op = "none" /\ Export(r)
    \/ \E r \in Authors, i \in 1..Len(log) : ret.op = "none" /\ Deliver(r, i)
    \/ \E r \in Authors \cup {Server} : GetVectorClock(r)
    \/ \E r \in Authors \cup {Server}, vv \in Clocks : GetVersionsSince(r, vv)
    \/ Return

SpecClock == Init /\ [][NextClock]_vars

\* Agents created at any moment between the edits of two replicas.
MaxAgentOrder == 2
NextAgent ==
    \/ \E r \in Authors, n \in 1..MaxIns, pos \in 0..MaxAgentOrder :
            ret.op = "none" /\ Authored + n <= MaxAgentOrder /\ LocalInsert(r, pos, n)
    \/ \E r \in Authors : ret.op = "none" /\ Export(r)
    \/ \E r \in Authors, i \in 1..Len(log) : ret.op = "none" /\ Deliver(r, i)
    \/ \E r \in Authors, name \in {"a", "b", "c", "ROOT"} : GetOrCreateAgent(r, name)
    \/ Return

SpecAgent == Init /\ [][NextAgent]_vars

\* The orders a list of OrderSpans <<order, len>> covers, and their number.
OrdersOf(spans) == UNION {spans[i][1]..(spans[i][1] + spans[i][2] - 1) : i \in 1..Len(spans)}
RECURSIVE OrderSpansLen(_)
OrderSpansLen(spans) ==
    IF Len(spans) = 0 THEN 0 ELSE Head(spans)[2] + OrderSpansLen(Tail(spans))

\* The orders of d whose (agent, seq) the clock vv has not reached.
OrdersSince(d, vv) ==
    {o \in 0..(get_next_order(d) - 1) :
        LET loc == get_crdt_location(d, o)
        IN loc.seq >= ClockSeq(vv, get_agent_name(d, loc.agent))}

\* The clock vv is at or beyond the replica's own clock for every agent.
AtOrBeyond(d, vv) ==
    \A a \in 1..Len(d.client_data) :
        ClockSeq(vv, d.client_data[a].name) >= get_next_seq(d.client_data[a])

\* C24: get_versions_since(vc) covers exactly the orders whose (agent, seq)
\* has seq >= vc[agent], with 0 for an agent vc does not name, each order
\* once; it is empty when vc is at or beyond the replica's clock everywhere.
C24_VersionsSinceCovers ==
    ret.op = "get_versions_since" =>
        LET d == docs[ret.replica]
        IN /\ OrdersOf(ret.out) = OrdersSince(d, ret.vv)
           /\ OrderSpansLen(ret.out) = Cardinality(OrdersSince(d, ret.vv))
           /\ AtOrBeyond(d, ret.vv) => ret.out = <<>>

\* A clock that stops inside an entry two long of one agent and names
\* nothing of another agent the replica holds.
C24_Witness ==
    /\ ret.op = "get_versions_since"
    /\ Len(ret.vv) = 1
    /\ LET d == docs[ret.replica]
           a == get_agent_id(d, ret.vv[1].agent)
       IN /\ Len(d.client_data) = 2
          /\ a # 0
          /\ ret.vv[1].seq = 1
          /\ Len(d.client_data[a].item_orders) = 1
          /\ d.client_data[a].item_orders[1][3] = 2
          /\ Len(d.client_data[3 - a].item_orders) = 1
          /\ Len(ret.out) = 1
          /\ ret.out[1][2] = 2

\* C25 as stated: the ranges of get_versions_since are in descending order,
\* each starting below the start of the one before it, and adjacent ranges
\* are merged.
C25_VersionsSinceDescending ==
    ret.op = "get_versions_since" =>
        \A i \in 1..Len(ret.out) - 1 :
            /\ ret.out[i + 1][1] < ret.out[i][1]
            /\ ret.out[i + 1][1] + ret.out[i + 1][2] < ret.out[i][1]

\* C25: the ranges of get_versions_since are in ascending order, each
\* starting beyond the end of the one before it, so that adjacent ranges
\* are merged.
C25_VersionsSinceAscending ==
    ret.op = "get_versions_since" =>
        /\ \A i \in 1..Len(ret.out) : ret.out[i][2] > 0
        /\ \A i \in 1..Len(ret.out) - 1 :
              ret.out[i][1] + ret.out[i][2] < ret.out[i + 1][1]

\* Two ranges come back: the clock names one agent, whose earlier run lies
\* between two runs the caller does not have.
C25_Witness ==
    /\ ret.op = "get_versions_since"
    /\ Len(ret.vv) = 1
    /\ Len(ret.out) = 2
    /\ ret.out[1][1] = 0
    /\ ret.out[2][1] = 2

\* The number of orders assigned to an agent.
OrdersAssigned(d, agent) ==
    Cardinality({o \in 0..(get_next_order(d) - 1) : get_crdt_location(d, o).agent = agent})

\* C26: get_vector_clock has exactly one entry per agent with at least one
\* operation, its seq the number of orders assigned to the agent; an agent
\* without operations has no entry, and an empty document gives the empty
\* clock.
C26_VectorClock ==
    ret.op = "get_vector_clock" =>
        LET d == docs[ret.replica]
            active == {a \in 1..Len(d.client_data) : OrdersAssigned(d, a) > 0}
        IN /\ Range(ret.out) = {[agent |-> get_agent_name(d, a),
                                 seq |-> OrdersAssigned(d, a)] : a \in active}
           /\ Len(ret.out) = Cardinality(active)
           /\ get_next_order(d) = 0 => ret.out = <<>>

\* An editing replica that has received the other agent's txn and not typed
\* yet: two agents in its table, one entry in its clock.
C26_Witness ==
    /\ ret.op = "get_vector_clock"
    /\ Len(docs[ret.replica].client_data) = 2
    /\ Len(docs[ret.replica].client_data[1].item_orders) = 0
    /\ Len(ret.out) = 1
    /\ ret.out[1].seq = 2

\* C27: get_or_create_agent_id returns the same id for the same name and
\* different ids for different names, a call with a known name adds no
\* agent, and "ROOT" gives the ROOT agent without an agent record.
C27_GetOrCreateAgentIdempotent ==
    ret.op = "get_or_create_agent_id" =>
        LET d == ret.before
            e == docs[ret.replica]
        IN /\ agent_id_returned(e, ret.name) = ret.out
           /\ get_or_create_agent_id(e, ret.name) = e
           /\ \A n \in {"a", "b", "c"} \ {ret.name} :
                agent_id_returned(e, n) # ret.out
           /\ \A n \in {"a", "b", "c"} :
                get_agent_id(d, n) # 0 => get_agent_id(e, n) = get_agent_id(d, n)
           /\ get_agent_id(d, ret.name) # 0 => e = d
           /\ ret.name = "ROOT" => ret.out = ROOT_AGENT /\ e = d
           /\ \A i, j \in 1..Len(e.client_data) :
                e.client_data[i].name = e.client_data[j].name => i = j

\* A third agent is created on a replica that holds two with operations,
\* and a call for a name already there.
C27_Witness ==
    /\ ret.op = "get_or_create_agent_id"
    /\ Len(ret.before.client_data) = 3
    /\ ret.name = "b"
    /\ ret.out = 3
    /\ Len(ret.before.client_data[1].item_orders) > 0

(***************************************************************************)
(* The short-circuit paths against the slow paths, on graphs whose entries *)
(* may carry the ROOT sentinel for a shadow that reaches down to 0 (the    *)
(* graphs of diff_three_root_txns, diff_shadow_bubble and                  *)
(* diff_common_branch_is_ordered in tools.rs)                              *)
(***************************************************************************)
MaxShadowLV == 4

\* An entry pushed with its shadow written as ROOT when it reaches 0.
PushEntryRootShadow(g, parents, len) ==
    LET first == NextLV(g)
        s == ComputeShadow(g, parents, first)
    IN AppendTxn(g, [span |-> <<first, first + len>>,
                     shadow |-> IF s = 0 THEN ROOT_TIME ELSE s,
                     parents |-> parents])

\* push_rev_rle of the tests: a visit joins the one before it when it ends
\* where that one starts and has the same flag.
push_rev_rle(list, span, flag) ==
    IF Len(list) > 0 /\ Last(list)[1][1] = span[2] /\ Last(list)[2] = flag
    THEN [list EXCEPT ![Len(list)] = <<(<<span[1], @[1][2]>>), flag>>]
    ELSE Append(list, <<span, flag>>)

RECURSIVE RevRle(_, _)
RevRle(list, visits) ==
    IF Len(visits) = 0 THEN list
    ELSE RevRle(push_rev_rle(list, Head(visits)[1], Head(visits)[2]), Tail(visits))

PushShadow(parents, len, rooted) ==
    /\ ret.op = "none"
    /\ NextLV(graph) + len <= MaxShadowLV
    /\ graph' = IF rooted THEN PushEntryRootShadow(graph, parents, len)
                ELSE PushEntry(graph, parents, len)
    /\ UNCHANGED <<ret, docvars>>

FindConflicting(a, b) ==
    /\ ret.op = "none"
    /\ ret' = [op |-> "find_conflicting", a |-> a, b |-> b, t |-> 0,
               out |-> find_conflicting(graph, a, b)]
    /\ UNCHANGED <<graph, docvars>>

NextShadow ==
    \/ \E p \in Frontiers(graph), len \in 1..MaxSpan, rooted \in BOOLEAN :
            PushShadow(p, len, rooted)
    \/ \E a \in Frontiers(graph), b \in Frontiers(graph) : FindConflicting(a, b)
    \/ \E a \in Frontiers(graph), b \in Frontiers(graph) : Diff(a, b)
    \/ Return

SpecShadow == InitCG /\ [][NextShadow]_vars

\* C28: find_conflicting, with its short-circuit paths, returns the common
\* ancestor find_conflicting_slow returns and makes the same visits once
\* both are reverse-RLE merged.
C28_FindConflictingSameAsSlow ==
    ret.op = "find_conflicting" =>
        LET slow == find_conflicting_slow(graph, ret.a, ret.b)
        IN /\ ret.out.frontier = slow.frontier
           /\ RevRle(<<>>, ret.out.out) = RevRle(<<>>, slow.out)

\* C29: diff, with its short-circuit paths, returns the pair of range lists
\* diff_slow returns.
C29_DiffSameAsSlow ==
    ret.op = "diff" => ret.out = diff_slow(graph, ret.a, ret.b)

\* The short-circuit path is taken: two different single-element versions,
\* one the direct descendant of the other inside one entry.
C29_Witness ==
    /\ ret.op = "diff"
    /\ Len(ret.a) = 1
    /\ Len(ret.b) = 1
    /\ ret.a # ret.b
    /\ is_direct_descendant_coarse(graph, ret.b[1], ret.a[1])
    /\ Len(graph) > 1
    /\ \E i \in 1..Len(graph) : graph[i].shadow = ROOT_TIME
    /\ ret.out[2] # <<>>

(***************************************************************************)
(* What a remote txn that cannot be applied leaves behind                  *)
(***************************************************************************)
RECURSIVE ExpectedContentLen(_)
ExpectedContentLen(ops) ==
    IF Len(ops) = 0 THEN 0
    ELSE (IF Head(ops).kind = "Ins" /\ Head(ops).content_known THEN Head(ops).len ELSE 0)
         + ExpectedContentLen(Tail(ops))

\* The txn with the last character of its content missing.
CutContent(txn) ==
    [txn EXCEPT !.ins_content = SubSeq(@, 1, Len(@) - 1)]

\* The calls of apply_remote_txn that do not complete: those of
\* remote_txn_panics, and assert_eq!(ins_content.chars().count(),
\* expected_content_len).
remote_txn_rejected(d, txn) ==
    \/ remote_txn_panics(d, txn)
    \/ Len(txn.ins_content) # ExpectedContentLen(txn.ops)

\* The number of leading ops all of whose ids are known.
RECURSIVE KnownOps(_, _)
KnownOps(d, ops) ==
    IF Len(ops) = 0 THEN 0
    ELSE IF \E id \in OpIds(Head(ops)) : ~KnowsId(d, id) THEN 0
    ELSE 1 + KnownOps(d, Tail(ops))

\* The part of a delete's target the replica knows: the loop of the Del arm
\* runs over it before seq_to_order_span unwraps on the rest.
KnownTargetLen(d, op) ==
    LET agent == get_agent_id(d, op.id.agent)
    IN IF agent = 0 \/ agent = ROOT_AGENT THEN 0
       ELSE Max(0, Min(op.len, get_next_seq(d.client_data[agent]) - op.id.seq))

\* The document as apply_remote_txn has it when it panics: the agent is
\* created before the seq is compared, the txn's orders are assigned before
\* its ops are applied, the ops before the failing one are applied, and the
\* parents are looked up last.
remote_txn_at_panic(d, txn) ==
    LET d0 == get_or_create_agent_id(d, txn.id.agent)
        agent == get_agent_id(d0, txn.id.agent)
        first_order == get_next_order(d0)
        txn_len == SumOpLen(txn.ops)
    IN IF get_next_seq(d0.client_data[agent]) # txn.id.seq THEN d0
       ELSE IF Len(txn.ins_content) # ExpectedContentLen(txn.ops) THEN d0
       ELSE LET d1 == assign_order_to_client(d0, agent, txn.id.seq, first_order, txn_len)
                k == KnownOps(d1, txn.ops)
                done == SubSeq(txn.ops, 1, k)
                d2 == apply_remote_ops(d1, agent, done, txn.ins_content, first_order)
            IN IF k < Len(txn.ops) /\ txn.ops[k + 1].kind = "Del"
                  /\ KnownTargetLen(d2, txn.ops[k + 1]) > 0
               THEN remote_delete_loop(d2, get_agent_id(d2, txn.ops[k + 1].id.agent),
                                       txn.ops[k + 1].id.seq,
                                       KnownTargetLen(d2, txn.ops[k + 1]),
                                       first_order + SumOpLen(done)).d
               ELSE d2

\* Any exported txn, whole or with its content cut short, handed to any
\* replica in any order; the caller keeps the document after a panic.
ApplyAnyRemoteTxn(r, i, cut) ==
    LET d == docs[r]
        txn == IF cut THEN CutContent(log[i]) ELSE log[i]
        p == remote_txn_rejected(d, txn)
    IN /\ ret.op = "none"
       /\ log[i].id.agent # r
       /\ cut => Len(log[i].ins_content) > 0
       /\ ret' = [op |-> "apply_remote_txn", replica |-> r, before |-> d,
                  rejected |-> ~Applicable(d, txn) \/ cut,
                  out |-> IF p THEN "panic" ELSE "ok"]
       /\ docs' = [docs EXCEPT ![r] =
                    IF p THEN remote_txn_at_panic(d, txn) ELSE apply_remote_txn(d, txn)]
       /\ UNCHANGED <<log, dest, rope, list_branch, graph>>

MaxRejectOrder == 3
NextReject ==
    \/ \E r \in Authors, n \in 1..MaxIns, pos \in 0..MaxRejectOrder :
            ret.op = "none" /\ Authored + n <= MaxRejectOrder /\ LocalInsert(r, pos, n)
    \/ \E r \in Authors, n \in 1..MaxIns, pos \in 0..MaxRejectOrder :
            ret.op = "none" /\ Authored + n <= MaxRejectOrder /\ LocalDelete(r, pos, n)
    \/ \E r \in Authors : ret.op = "none" /\ Export(r)
    \/ \E r \in Authors \cup {Reader}, i \in 1..Len(log), cut \in BOOLEAN :
            ApplyAnyRemoteTxn(r, i, cut)
    \/ ret.op = "apply_remote_txn" /\ ret.out = "ok" /\ Return

SpecReject == Init /\ [][NextReject]_vars

\* C30: a remote txn that is rejected (its seq is not the agent's next, it
\* names an unknown parent, origin or delete target, or its content is not
\* as long as its op headers say) leaves the replica as it was: no agent
\* created, no order or seq assigned, and the content tree, text, deletes,
\* txns and frontier as before the call.
C30_RejectedLeavesUnchanged ==
    (ret.op = "apply_remote_txn" /\ ret.rejected) => docs[ret.replica] = ret.before

(***************************************************************************)
(* merge_and_assign: an entry read from a file or a peer is given LVs and  *)
(* saved in the causal graph (caller: encoding/cg_entry.rs,                *)
(* read_cg_entry_into_cg). A causal graph is                               *)
(*   [graph, client_data, client_with_order]                               *)
(* with the graph entries and agent tables as above; an entry is           *)
(*   [parents, agent, seq_start, seq_end]                                  *)
(* a run of one agent: each seq after the first has the seq before it for  *)
(* its only parent.                                                        *)
(***************************************************************************)
MaxAssignLV == 4

NewCG ==
    [graph |-> <<>>,
     client_data |-> <<[name |-> "a", item_orders |-> <<>>],
                       [name |-> "b", item_orders |-> <<>>]>>,
     client_with_order |-> <<>>]

\* The LVs start..start+len-1 go to (agent, seq..) with the given parents.
assign_span(cg, parents, agent, seq, len) ==
    LET start == NextLV(cg.graph)
    IN [assign_order_to_client(cg, agent, seq, start, len) EXCEPT
            !.graph = PushEntry(@, parents, len)]

\* merge_and_assign that hangs the unknown part of a partly known span on
\* the parents of the whole span.
merge_and_assign_same_parents(cg, parents, span) ==
    LET next == get_next_seq(cg.client_data[span.agent])
    IN IF span.seq_end <= next THEN cg
       ELSE IF span.seq_start < next
       THEN assign_span(cg, parents, span.agent, next, span.seq_end - next)
       ELSE assign_span(cg, parents, span.agent, span.seq_start,
                        span.seq_end - span.seq_start)

\* A span wholly known assigns nothing; of a span partly known, the unknown
\* part alone gets LVs, and follows the agent's last known seq; a new span
\* gets LVs with the parents given.
merge_and_assign(cg, parents, span) ==
    LET client == cg.client_data[span.agent]
        next == get_next_seq(client)
    IN IF span.seq_end <= next THEN cg
       ELSE IF span.seq_start < next
       THEN assign_span(cg, <<seq_to_order(client, next - 1)>>, span.agent, next,
                        span.seq_end - next)
       ELSE assign_span(cg, parents, span.agent, span.seq_start,
                        span.seq_end - span.seq_start)

\* The parents an entry gives to the agent's next seq.
ParentsForNext(cg, e) ==
    LET client == cg.client_data[e.agent]
        next == get_next_seq(client)
    IN IF e.seq_start < next THEN <<seq_to_order(client, next - 1)>> ELSE e.parents

\* The entries a peer can send: runs that agree with what is known already.
ValidEntry(cg, e) ==
    LET client == cg.client_data[e.agent]
        next == get_next_seq(client)
        g == cg.graph
    IN /\ e.seq_start < e.seq_end
       /\ e.seq_start <= next
       /\ e.seq_start < next =>
            /\ e.parents = SetToSortedSeq(ParentsOf(g, seq_to_order(client, e.seq_start)))
            /\ \A s \in (e.seq_start + 1)..(Min(e.seq_end, next) - 1) :
                  ParentsOf(g, seq_to_order(client, s)) = {seq_to_order(client, s - 1)}
       /\ (e.seq_start = next /\ next > 0) =>
            seq_to_order(client, next - 1) \in History(g, e.parents)

Entries(cg) ==
    {e \in [parents : Frontiers(cg.graph), agent : 1..2,
            seq_start : 0..MaxAssignLV, seq_end : 1..MaxAssignLV] : ValidEntry(cg, e)}

\* The LVs an entry adds.
NewLen(cg, e) == Max(0, e.seq_end - Max(e.seq_start, get_next_seq(cg.client_data[e.agent])))

MergeAndAssign(e) ==
    /\ ret.op = "none"
    /\ NextLV(docs[1].graph) + NewLen(docs[1], e) <= MaxAssignLV
    /\ docs' = <<merge_and_assign(docs[1], e.parents, e)>>
    /\ UNCHANGED <<log, dest, rope, list_branch, cgvars>>

\* Two entries neither of which depends on the other (both can be merged
\* now, and they say the same of any seq they share) merged in the two
\* orders, from the same graph.
MergeBoth(x, y) ==
    /\ ret.op = "none"
    /\ x # y
    /\ x.agent = y.agent => ParentsForNext(docs[1], x) = ParentsForNext(docs[1], y)
    /\ NextLV(docs[1].graph) + NewLen(docs[1], x) + NewLen(docs[1], y) <= MaxAssignLV
    /\ ret' = [op |-> "merge_both", a |-> x, b |-> y, t |-> 0,
               out |-> <<merge_and_assign(merge_and_assign(docs[1], x.parents, x), y.parents, y),
                         merge_and_assign(merge_and_assign(docs[1], y.parents, y), x.parents, x)>>]
    /\ UNCHANGED <<docvars, graph>>

NextAssign ==
    \/ ret.op = "none" /\ \E e \in Entries(docs[1]) : MergeAndAssign(e)
    \/ ret.op = "none" /\ LET E == Entries(docs[1]) IN \E x \in E, y \in E : MergeBoth(x, y)
    \/ Return

InitAssign ==
    /\ docs = <<NewCG>>
    /\ log = <<>>
    /\ dest = NoDest
    /\ rope = <<>>
    /\ list_branch = [version |-> <<>>, content |-> <<>>]
    /\ graph = <<>>
    /\ ret = NoRet

SpecAssign == InitAssign /\ [][NextAssign]_vars

\* The graph with every LV written as its (agent, seq): for each LV, its id
\* and the ids of its parents.
Topology(cg) ==
    {[id |-> get_crdt_location(cg, lv),
      parents |-> {get_crdt_location(cg, p) : p \in ParentsOf(cg.graph, lv)}] :
        lv \in 0..(NextLV(cg.graph) - 1)}

\* The (agent, seq) pairs of the agent tables.
Assigned(cg) ==
    {loc \in [agent : 1..Len(cg.client_data), seq : 0..MaxAssignLV] :
        KnowsSeq(cg.client_data[loc.agent], loc.seq)}

SpanIds(e) == {[agent |-> e.agent, seq |-> s] : s \in e.seq_start..(e.seq_end - 1)}

\* C23: two entries neither of which depends on the other, merged in either
\* order, give the same graph and the same agent assignment once every LV is
\* written as its (agent, seq); and an entry whose span is partly known gets
\* LVs for the unknown part alone, the known part keeping its LVs.
C23_MergeAndAssignCommutes ==
    ret.op = "merge_both" =>
        LET cg == docs[1]
            ab == ret.out[1]
            ba == ret.out[2]
        IN /\ Topology(ab) = Topology(ba)
           /\ Assigned(ab) = Assigned(ba)
           /\ Assigned(ab) = Assigned(cg) \cup SpanIds(ret.a) \cup SpanIds(ret.b)
           /\ NextLV(ab.graph) = Cardinality(Assigned(ab))
           /\ NextLV(ba.graph) = Cardinality(Assigned(ba))
           /\ \A lv \in 0..(NextLV(cg.graph) - 1) :
                /\ get_crdt_location(ab, lv) = get_crdt_location(cg, lv)
                /\ get_crdt_location(ba, lv) = get_crdt_location(cg, lv)
           /\ \A loc \in Assigned(ab) :
                /\ get_crdt_location(ab, get_order(ab, loc)) = loc
                /\ get_crdt_location(ba, get_order(ba, loc)) = loc

\* Entries of two agents, one of them partly known, get different LVs in
\* the two orders.
C23_Witness ==
    /\ ret.op = "merge_both"
    /\ ret.out[1] # ret.out[2]
    /\ ret.a.agent # ret.b.agent
    /\ ret.a.seq_start < get_next_seq(docs[1].client_data[ret.a.agent])
    /\ ret.a.seq_end > get_next_seq(docs[1].client_data[ret.a.agent])


(***************************************************************************)
(* The shadow of a txn entry (doc.rs: insert_txn)                          *)
(***************************************************************************)
\* The LVs the first LV of entry k descends from.
AncestorsOfEntry(d, k) ==
    HistoryOf(GraphOf(d), Range(GraphOf(d)[k].parents))

\* Every LV of [s, start of entry k) is an ancestor of the entry's first LV.
ShadowCovers(d, k, s) ==
    /\ s <= d.txns[k].span[1]
    /\ \A t \in s..(d.txns[k].span[1] - 1) : t \in AncestorsOfEntry(d, k)

\* C31 as stated: on every replica the shadow of every txn entry is the
\* smallest LV s such that every LV in [s, span.start) is an ancestor of
\* span.start.
C31_ShadowIsSmallest ==
    \A r \in DOMAIN docs :
        \A k \in 1..Len(docs[r].txns) :
            /\ ShadowCovers(docs[r], k, docs[r].txns[k].shadow)
            /\ \A s \in 0..(docs[r].txns[k].shadow - 1) : ~ShadowCovers(docs[r], k, s)

\* C31: on every replica the shadow of every txn entry is an LV s, at most
\* span.start, such that every LV in [s, span.start) is an ancestor of
\* span.start; whenever shadow <= t <= f for an LV f of the entry, t is in the
\* history of f, so the shadow fast path of version_contains_time never
\* answers true for an LV that is not an ancestor.
C31_ShadowCoversAncestors ==
    \A r \in DOMAIN docs :
        \A k \in 1..Len(docs[r].txns) :
            LET e == docs[r].txns[k]
            IN /\ ShadowCovers(docs[r], k, e.shadow)
               /\ \A f \in SpanSet(e.span) :
                    \A t \in 0..f :
                        shadow_contains(e, t) => t \in HistoryOf(GraphOf(docs[r]), {f})

\* A replica holds an entry with two parents whose shadow is neither its own
\* first LV nor 0, although LV 0 is one of its ancestors.
C31_Witness ==
    \E r \in DOMAIN docs :
        \E k \in 1..Len(docs[r].txns) :
            /\ Len(docs[r].txns[k].parents) = 2
            /\ docs[r].txns[k].shadow > 0
            /\ docs[r].txns[k].shadow < docs[r].txns[k].span[1]
            /\ 0 \in AncestorsOfEntry(docs[r], k)


(***************************************************************************)
(* Items and their origins (doc.rs: integrate)                             *)
(***************************************************************************)
HasOrder(tree, order) == \E i \in 1..Len(tree) : tree[i].order = order

\* Item i of the tree lies after its origin_left and before its origin_right.
BetweenOrigins(tree, i) ==
    /\ tree[i].origin_left # ROOT_ORDER =>
            /\ HasOrder(tree, tree[i].origin_left)
            /\ IndexOfOrder(tree, tree[i].origin_left) < i
    /\ tree[i].origin_right # ROOT_ORDER =>
            /\ HasOrder(tree, tree[i].origin_right)
            /\ i < IndexOfOrder(tree, tree[i].origin_right)

\* C32: on every replica every item of the content tree, visible or
\* tombstone, lies strictly after its origin_left item and strictly before
\* its origin_right item (anywhere when the origin is ROOT), and the visible
\* items before any item never outnumber the characters of the document.
C32_ItemsBetweenOrigins ==
    \A r \in DOMAIN docs :
        LET tree == docs[r].range_tree
        IN \A i \in 1..Len(tree) :
            /\ BetweenOrigins(tree, i)
            /\ count_pos(tree, i - 1) <= Len(docs[r].text_content)

\* A replica integrated a remote item between two items of another agent,
\* next to a tombstone.
C32_Witness ==
    \E r \in DOMAIN docs :
        LET tree == docs[r].range_tree
        IN /\ \E i \in 1..Len(tree) : ~tree[i].activated
           /\ \E i \in 1..Len(tree) :
                /\ tree[i].origin_left # ROOT_ORDER
                /\ tree[i].origin_right # ROOT_ORDER
                /\ get_crdt_location(docs[r], tree[i].order).agent
                     # get_crdt_location(docs[r], tree[i].origin_left).agent


(***************************************************************************)
(* The transformed operations of the server's op log                       *)
(* (src/list/merge.rs: iter_xf_operations_from)                            *)
(***************************************************************************)
\* As for a merge, the op log is read once it is written: the iterator reads
\* the histories of its two versions only.
MaxXfOrder == 3

IterXfOperationsFrom(from, merging) ==
    /\ ret.op = "none"
    /\ ret' = [op |-> "iter_xf_operations_from", a |-> from, b |-> merging, t |-> 0,
               out |-> iter_xf_operations_from(docs[Server], from, merging)]
    /\ UNCHANGED <<graph, docvars>>

NextXf ==
    \/ \E r \in Authors, n \in 1..MaxIns, pos \in 0..MaxOrder :
            ret.op = "none" /\ Authored + n <= MaxXfOrder /\ LocalInsert(r, pos, n)
    \/ \E r \in Authors, n \in 1..MaxIns, pos \in 0..MaxOrder :
            ret.op = "none" /\ Authored + n <= MaxXfOrder /\ LocalDelete(r, pos, n)
    \/ \E r \in Authors : ret.op = "none" /\ Export(r)
    \/ \E r \in Authors, i \in 1..Len(log) : ret.op = "none" /\ Deliver(r, i)
    \/ /\ ret.op = "none"
       /\ Settled
       /\ \E from, merging \in Frontiers(GraphOf(docs[Server])) :
            IterXfOperationsFrom(from, merging)
    \/ Return

SpecXf == Init /\ [][NextXf]_vars

\* The LV ranges the iterator yielded, in order.
XfRanges(out) == [k \in 1..Len(out) |-> out[k].range]

\* C33: the LV ranges iter_xf_operations_from(from, merging) yields are
\* pairwise disjoint and their union is history(merging) minus history(from):
\* every operation to merge is emitted once, as Some(op) or None, and no
\* operation of from is emitted.
C33_XfRangesCoverDifference ==
    ret.op = "iter_xf_operations_from" =>
        LET g == GraphOf(docs[Server])
        IN CoversOnce(XfRanges(ret.out), History(g, ret.b) \ History(g, ret.a))

\* The iterator ran between two versions with concurrent heads, left out an
\* operation of from, and yielded both a Some and a None.
C33_Witness ==
    /\ ret.op = "iter_xf_operations_from"
    /\ Len(ret.b) = 2
    /\ Len(ret.a) >= 1
    /\ \E k \in 1..Len(ret.out) : ret.out[k].some
    /\ \E k \in 1..Len(ret.out) : ~ret.out[k].some


(***************************************************************************)
(* The transformed stream against the branch content (merge.rs: merge)     *)
(***************************************************************************)
\* The character the delete at lv removes.
DeletedChar(d, lv) == get_content(d, DelTarget(d, lv))

\* One transformed operation fits the content it is applied to: a delete
\* that already happened finds its character gone and changes nothing, an
\* insert lands within the text, a delete lies within the text and removes
\* the character of its target.
XfFits(content, d, op) ==
    IF op.xf = "DeleteAlreadyHappened"
    THEN /\ op.kind = "Del"
         /\ ~Contains(content, DeletedChar(d, op.lv))
         /\ ~xf_to_text_op(op).some
         /\ merge_apply(content, d, <<op>>) = content
    ELSE IF op.kind = "Ins"
    THEN op.pos <= Len(content) /\ xf_to_text_op(op).some
    ELSE /\ op.pos + op.len <= Len(content)
         /\ content[op.pos + 1] = DeletedChar(d, op.lv)
         /\ xf_to_text_op(op).some

RECURSIVE XfStreamFits(_, _, _)
XfStreamFits(content, d, ops) ==
    IF Len(ops) = 0 THEN TRUE
    ELSE /\ XfFits(content, d, Head(ops))
         /\ XfStreamFits(merge_apply(content, d, <<Head(ops)>>), d, Tail(ops))

\* C34: in every merge, a delete whose target is gone from the text at the
\* moment of transform comes as DeleteAlreadyHappened (None) and leaves the
\* text unchanged; every other delete has pos + len <= the text length at the
\* moment it is applied and removes its target, and every insert has
\* pos <= the text length at that moment.
C34_XfStreamFitsText ==
    [][\A T \in Frontiers(GraphOf(docs[Server])) :
          Merge(T) =>
            XfStreamFits(list_branch.content, docs[Server],
                         get_xf_operations_full(docs[Server], list_branch.version, T))]_vars

\* The branch merged two deletes of the same character.
C34_Witness ==
    LET H == History(GraphOf(docs[Server]), list_branch.version)
    IN \E x, y \in H :
        /\ x # y
        /\ OpKind(docs[Server], x) = "Del"
        /\ OpKind(docs[Server], y) = "Del"
        /\ DelTarget(docs[Server], x) = DelTarget(docs[Server], y)


(***************************************************************************)
(* The parents of a subgraph's entries (subgraph.rs: subgraph_raw)         *)
(***************************************************************************)
\* The LVs of S that no other LV of S descends from.
Dominators(g, S) == {x \in S : \A y \in S : y # x => x \notin HistoryOf(g, {y})}

\* The nearest ancestors of lv among the LVs kept: the kept LVs lv descends
\* from, in the original graph, less those another of them descends from.
NearestRetained(g, kept, lv) ==
    Dominators(g, HistoryOf(g, ParentsOf(g, lv)) \cap kept)

\* C35: every entry of subgraph(filter, frontier) has for parents the nearest
\* retained ancestors of its first LV in the original graph, reduced to
\* dominators: each parent is below the entry's first LV and belongs to the
\* subgraph, and the parents are a sorted antichain.
C35_SubgraphParents ==
    ret.op = "subgraph" =>
        LET kept == Covered([k \in 1..Len(ret.out) |-> ret.out[k].span])
        IN \A k \in 1..Len(ret.out) :
            LET e == ret.out[k]
            IN /\ e.parents = SetToSortedSeq(NearestRetained(graph, kept, e.span[1]))
               /\ \A i \in 1..Len(e.parents) :
                    e.parents[i] < e.span[1] /\ e.parents[i] \in kept
               /\ IsSorted(e.parents)
               /\ IsAntichain(graph, Range(e.parents))

\* A projection whose entry has two parents, one of them reached over LVs the
\* filter leaves out.
C35_Witness ==
    /\ ret.op = "subgraph"
    /\ \E k \in 1..Len(ret.out) :
          /\ Len(ret.out[k].parents) = 2
          /\ Range(ret.out[k].parents) # ParentsOf(graph, ret.out[k].span[1])


(***************************************************************************)
(* One round of copy_txn_range_into, on any span of known orders           *)
(* (external_txn.rs: next_remote_txn_from_order)                           *)
(***************************************************************************)
\* The spans are taken from replicas that have caught up with one another:
\* every order of theirs is then known to the three of them.
MaxTxnOrder == 4

NextRemoteTxnFromOrder(r, span) ==
    /\ ret.op = "none"
    /\ span[1] + span[2] <= get_next_order(docs[r])
    /\ ret' = [op |-> "next_remote_txn_from_order", replica |-> r, a |-> span,
               out |-> next_remote_txn_from_order(docs[r], span)]
    /\ UNCHANGED <<graph, docvars>>

NextTxn ==
    \/ \E r \in Authors, n \in 1..MaxIns, pos \in 0..MaxTxnOrder :
            ret.op = "none" /\ Authored + n <= MaxTxnOrder /\ LocalInsert(r, pos, n)
    \/ \E r \in Authors, n \in 1..MaxIns, pos \in 0..MaxTxnOrder :
            ret.op = "none" /\ Authored + n <= MaxTxnOrder /\ LocalDelete(r, pos, n)
    \/ \E r \in Authors : ret.op = "none" /\ Export(r)
    \/ \E r \in Authors, i \in 1..Len(log) : ret.op = "none" /\ Deliver(r, i)
    \/ /\ ret.op = "none"
       /\ Settled
       /\ \E r \in Authors \cup {Server}, order \in 0..(MaxTxnOrder - 1),
             len \in 1..MaxTxnOrder :
                NextRemoteTxnFromOrder(r, <<order, len>>)
    \/ Return

SpecTxn == Init /\ [][NextTxn]_vars

\* The consumed lengths of the rounds of copy_txn_range_into over the span;
\* a round that consumes nothing ends the list with 0.
RECURSIVE RoundLens(_, _)
RoundLens(d, span) ==
    IF span[2] <= 0 THEN <<>>
    ELSE LET n == next_remote_txn_from_order(d, span).len
         IN IF n <= 0 \/ n > span[2] THEN <<0>>
            ELSE <<n>> \o RoundLens(d, <<span[1] + n, span[2] - n>>)

RECURSIVE SumSeq(_)
SumSeq(s) == IF Len(s) = 0 THEN 0 ELSE Head(s) + SumSeq(Tail(s))

\* C36: for a span of known orders with len > 0, next_remote_txn_from_order
\* returns a consumed length n with 1 <= n <= span.len; the lengths of the
\* txn's ops sum to n; the n orders belong to the agent of the txn's id, with
\* the seqs id.seq, id.seq + 1, ...; the parents are the order before the
\* span when it starts inside a txn entry and the entry's parents otherwise;
\* and the rounds of copy_txn_range_into consume exactly the span.
C36_NextRemoteTxn ==
    ret.op = "next_remote_txn_from_order" =>
        LET d == docs[ret.replica]
            order == ret.a[1]
            n == ret.out.len
            txn == ret.out.txn
            entry == find(d.txns, order)
        IN /\ 1 <= n /\ n <= ret.a[2]
           /\ SumOpLen(txn.ops) = n
           /\ \A k \in 0..(n - 1) :
                order_to_remote_id(d, order + k)
                    = [agent |-> txn.id.agent, seq |-> txn.id.seq + k]
           /\ txn.parents =
                IF order > entry.span[1] THEN <<order_to_remote_id(d, order - 1)>>
                ELSE [k \in 1..Len(entry.parents) |->
                        order_to_remote_id(d, entry.parents[k])]
           /\ ~Contains(RoundLens(d, ret.a), 0)
           /\ SumSeq(RoundLens(d, ret.a)) = ret.a[2]

\* A round over a span that starts inside a txn entry and runs into the
\* orders of another agent: it consumes less than the span and holds a delete.
C36_Witness ==
    /\ ret.op = "next_remote_txn_from_order"
    /\ ret.a[1] > find(docs[ret.replica].txns, ret.a[1]).span[1]
    /\ ret.out.len < ret.a[2]
    /\ \E k \in 1..Len(ret.out.txn.ops) : ret.out.txn.ops[k].kind = "Del"


(***************************************************************************)
(* The experimental op log and its branches (src/experiments/branch.rs)    *)
(*   docs[1]   the ExperimentalOpLog: [graph, version, map_keys,           *)
(*             map_index, text_index, texts]                                *)
(* The op log's writers are not part of the sources at hand: they follow   *)
(* their callers, the tests of branch.rs. A text's content is the set of   *)
(* the text operations merged into it.                                     *)
(***************************************************************************)
ROOT_CRDT_ID == ROOT_TIME
MaxExpLV == 3
Keys == {"k", "m"}
CreateValues == {"Primitive", "Map", "Text"}

EmptyFn == [x \in {} |-> x]

NewOpLog ==
    [graph |-> <<>>, version |-> <<>>, map_keys |-> EmptyFn,
     map_index |-> {}, text_index |-> {}, texts |-> {}]

\* CreateValue to RegisterValue: a new CRDT goes by the LV that created it.
create_value(cv, v) == [kind |-> cv, val |-> v]

\* The active op of a register and the others of its supremum.
tie_break_mv(info) ==
    LET active == CHOOSE i \in info.supremum :
                      \A j \in info.supremum : info.ops[j].v <= info.ops[i].v
    IN <<active, SetToSortedSeq(info.supremum \ {active})>>

get_state_for_register(info) ==
    LET t == tie_break_mv(info)
    IN [value |-> info.ops[t[1]].value,
        conflicts_with |-> [k \in 1..Len(t[2]) |-> info.ops[t[2][k]].value]]

\* RegisterState::each_value: the values f is called with.
each_value(state) == {state.value} \cup Range(state.conflicts_with)

\* The CRDTs owned by the current values of the registers of map crdt.
OwnedIn(ol, crdt) ==
    {rv \in UNION {each_value(get_state_for_register(ol.map_keys[p])) :
                      p \in {q \in DOMAIN ol.map_keys : q[1] = crdt}} :
        rv.kind # "Primitive"}

RECURSIVE OwnedClosure(_, _)
OwnedClosure(ol, S) ==
    LET next == S \cup UNION {OwnedIn(ol, rv.val) : rv \in {x \in S : x.kind = "Map"}}
    IN IF next = S THEN S ELSE OwnedClosure(ol, next)

\* The CRDTs owned by overwritten values leave the indexes, with everything
\* they own.
recursive_mark_deleted(ol, roots) ==
    LET gone == {rv.val : rv \in OwnedClosure(ol, roots)}
    IN [ol EXCEPT !.map_index = {e \in @ : e[2] \notin gone},
                  !.text_index = {e \in @ : e[2] \notin gone}]

\* The op at LV v sets (crdt, key): it replaces the ops of the supremum it
\* descends from.
remote_map_set(ol, crdt, v, key, cv) ==
    LET p == <<crdt, key>>
        info == IF p \in DOMAIN ol.map_keys THEN ol.map_keys[p]
                ELSE [ops |-> <<>>, supremum |-> {}]
        dominated == {i \in info.supremum : info.ops[i].v \in HistoryOf(ol.graph, {v})}
        lost == {rv \in {info.ops[i].value : i \in dominated} : rv.kind # "Primitive"}
        info1 == [ops |-> Append(info.ops, [v |-> v, value |-> create_value(cv, v)]),
                  supremum |-> (info.supremum \ dominated) \cup {Len(info.ops) + 1}]
    IN [recursive_mark_deleted(ol, lost) EXCEPT
            !.map_keys = (p :> info1) @@ @,
            !.map_index = @ \cup {<<v, crdt, key>>},
            !.texts = IF cv = "Text" THEN @ \cup {v} ELSE @]

\* CausalGraph::assign_local_op_with_parents for one LV.
assign_local_op_with_parents(ol, parents) ==
    [ol EXCEPT !.graph = PushEntry(@, parents, 1),
               !.version = advance_frontier_by_known_run(@, parents,
                                <<NextLV(ol.graph), NextLV(ol.graph) + 1>>)]

local_map_set(ol, crdt, key, cv) ==
    remote_map_set(assign_local_op_with_parents(ol, ol.version), crdt,
                   NextLV(ol.graph), key, cv)

local_text_op(ol, text) ==
    [assign_local_op_with_parents(ol, ol.version) EXCEPT
        !.text_index = @ \cup {<<NextLV(ol.graph), text>>}]

\* The text operations of the text within the LV ranges.
TextOpsIn(ol, text, lvs) == {e[1] : e \in {x \in ol.text_index : x[2] = text /\ x[1] \in lvs}}

checkout_text(ol, text) == TextOpsIn(ol, text, 0..NextLV(ol.graph))

merge_into(content, ol, text, from, to) ==
    content \cup TextOpsIn(ol, text, Covered(diff(ol.graph, from, to)[2]))

\* The while loop of checkout_tip over the stack maps_to_copy.
RECURSIVE checkout_loop(_, _, _)
checkout_loop(ol, maps_to_copy, result) ==
    IF Len(maps_to_copy) = 0 THEN result
    ELSE LET crdt == Last(maps_to_copy)
             keys == {p[2] : p \in {q \in DOMAIN ol.map_keys : q[1] = crdt}}
             this_map == [key \in keys |-> get_state_for_register(ol.map_keys[<<crdt, key>>])]
             owned == OwnedIn(ol, crdt)
             child_maps == SetToSortedSeq({rv.val : rv \in {x \in owned : x.kind = "Map"}})
             texts == {rv.val : rv \in {x \in owned : x.kind = "Text"}}
         IN checkout_loop(ol,
                SubSeq(maps_to_copy, 1, Len(maps_to_copy) - 1) \o child_maps,
                [result EXCEPT !.maps = (crdt :> this_map) @@ @,
                               !.texts = [t \in texts |-> checkout_text(ol, t)] @@ @])

checkout_tip(ol) ==
    checkout_loop(ol, <<ROOT_CRDT_ID>>,
                  [frontier |-> ol.version, maps |-> EmptyFn, texts |-> EmptyFn])

ExperimentalBranch_new ==
    [frontier |-> <<>>, maps |-> (ROOT_CRDT_ID :> EmptyFn), texts |-> EmptyFn]

\* The map_index entries of one range, in LV order: each key is replaced by
\* the register's current state.
RECURSIVE merge_map_entries(_, _, _)
merge_map_entries(b, ol, entries) ==
    IF Len(entries) = 0 THEN b
    ELSE LET map_crdt == Head(entries)[2]
             key == Head(entries)[3]
             obj == IF map_crdt \in DOMAIN b.maps THEN b.maps[map_crdt] ELSE EmptyFn
             state == get_state_for_register(ol.map_keys[<<map_crdt, key>>])
         IN merge_map_entries([b EXCEPT !.maps = (map_crdt :> ((key :> state) @@ obj)) @@ @],
                              ol, Tail(entries))

\* The text_index entries of one range, in LV order.
RECURSIVE merge_text_entries(_, _, _)
merge_text_entries(b, ol, entries) ==
    IF Len(entries) = 0 THEN b
    ELSE LET text_crdt == Head(entries)[2]
             text_content == IF text_crdt \in DOMAIN b.texts THEN b.texts[text_crdt] ELSE {}
         IN merge_text_entries(
                [b EXCEPT !.texts = (text_crdt :>
                        merge_into(text_content, ol, text_crdt, b.frontier, ol.version)) @@ @],
                ol, Tail(entries))

\* An index (a set of tuples that start with their LV) within a range, in LV
\* order.
RECURSIVE IndexRange(_, _)
IndexRange(index, range) ==
    LET inside == {e \in index : range[1] <= e[1] /\ e[1] < range[2]}
    IN IF inside = {} THEN <<>>
       ELSE LET first == CHOOSE e \in inside : \A x \in inside : e[1] <= x[1]
            IN <<first>> \o IndexRange(index \ {first}, range)

RECURSIVE merge_ranges(_, _, _)
merge_ranges(b, ol, ranges) ==
    IF Len(ranges) = 0 THEN b
    ELSE merge_ranges(
            merge_text_entries(
                merge_map_entries(b, ol, IndexRange(ol.map_index, Head(ranges))),
                ol, IndexRange(ol.text_index, Head(ranges))),
            ol, Tail(ranges))

merge_changes_to_tip(b, ol) ==
    [merge_ranges(b, ol, diff(ol.graph, b.frontier, ol.version)[2])
        EXCEPT !.frontier = ol.version]

\* The values of every register state of the branch.
BranchValues(b) ==
    UNION {UNION {each_value(b.maps[m][key]) : key \in DOMAIN b.maps[m]} : m \in DOMAIN b.maps}

\* dbg_check: TRUE when its two assertions hold.
dbg_check(b) ==
    /\ {ROOT_CRDT_ID} \cup {rv.val : rv \in {x \in BranchValues(b) : x.kind = "Map"}}
            = DOMAIN b.maps
    /\ {rv.val : rv \in {x \in BranchValues(b) : x.kind = "Text"}} = DOMAIN b.texts

LocalMapSet(crdt, key, cv) ==
    /\ ret.op = "none"
    /\ NextLV(docs[1].graph) < MaxExpLV
    /\ docs' = <<local_map_set(docs[1], crdt, key, cv)>>
    /\ UNCHANGED <<log, dest, rope, list_branch, cgvars>>

LocalTextOp(text) ==
    /\ ret.op = "none"
    /\ NextLV(docs[1].graph) < MaxExpLV
    /\ docs' = <<local_text_op(docs[1], text)>>
    /\ UNCHANGED <<log, dest, rope, list_branch, cgvars>>

\* assign_local_op_with_parents and remote_map_set: a set concurrent with
\* the op log's version, on a map the parents know.
RemoteMapSet(parents, crdt, key, cv) ==
    /\ ret.op = "none"
    /\ NextLV(docs[1].graph) < MaxExpLV
    /\ parents # docs[1].version
    /\ crdt = ROOT_CRDT_ID \/ crdt \in History(docs[1].graph, parents)
    /\ docs' = <<remote_map_set(assign_local_op_with_parents(docs[1], parents), crdt,
                                NextLV(docs[1].graph), key, cv)>>
    /\ UNCHANGED <<log, dest, rope, list_branch, cgvars>>

\* tests::check_oplog_checkouts_match: the two checkouts and their checks.
CheckOplogCheckoutsMatch ==
    /\ ret.op = "none"
    /\ ret' = [op |-> "check_oplog_checkouts_match",
               out |-> [branch1 |-> checkout_tip(docs[1]),
                        branch2 |-> merge_changes_to_tip(ExperimentalBranch_new, docs[1])]]
    /\ UNCHANGED <<graph, docvars>>

NextExp ==
    \/ /\ ret.op = "none"
       /\ \E crdt \in DOMAIN checkout_tip(docs[1]).maps, key \in Keys, cv \in CreateValues :
            LocalMapSet(crdt, key, cv)
    \/ /\ ret.op = "none"
       /\ \E text \in DOMAIN checkout_tip(docs[1]).texts : LocalTextOp(text)
    \/ /\ ret.op = "none"
       /\ \E parents \in Frontiers(docs[1].graph),
             crdt \in DOMAIN checkout_tip(docs[1]).maps, key \in Keys, cv \in CreateValues :
            RemoteMapSet(parents, crdt, key, cv)
    \/ CheckOplogCheckoutsMatch
    \/ Return

InitExp ==
    /\ docs = <<NewOpLog>>
    /\ log = <<>>
    /\ dest = NoDest
    /\ rope = <<>>
    /\ list_branch = [version |-> <<>>, content |-> <<>>]
    /\ graph = <<>>
    /\ ret = NoRet

SpecExp == InitExp /\ [][NextExp]_vars

\* C37: for every op log, checkout_tip() equals a fresh branch brought up to
\* date by merge_changes_to_tip, and in both the map and text CRDTs present
\* are the root and those owned by a current register value (dbg_check).
C37_CheckoutsMatch ==
    ret.op = "check_oplog_checkouts_match" =>
        /\ ret.out.branch1 = ret.out.branch2
        /\ dbg_check(ret.out.branch1)
        /\ dbg_check(ret.out.branch2)


(***************************************************************************)
(* ListCRDT::len and ListCRDT::is_empty (src/list/doc.rs)                   *)
(***************************************************************************)
\* RangeTree::len over the content index: the tree's count, which for the
\* document's tree is the number of visible characters.
range_tree_len(tree) == content_len(tree)

ListCRDT_len(d) == content_len(d.range_tree)

is_empty(d) == range_tree_len(d.range_tree) # 0

\* C40: in every reachable state, is_empty() is true iff the document holds
\* no content (len() = 0), and false once it holds a character.
C40_IsEmptyIffNoContent ==
    \A r \in DOMAIN docs : is_empty(docs[r]) <=> (ListCRDT_len(docs[r]) = 0)


(***************************************************************************)
(* Writing and reading causal graph entries (src/encoding/cg_entry.rs)     *)
(*   docs[1]   the CausalGraph the entries are written from                 *)
(* The result is [ok, bytes]: bytes is the sequence of the values pushed    *)
(* (push_u32, push_usize, push_u64, push_str), one element each. persist   *)
(* is true throughout, as write_cg_entry_iter passes it.                    *)
(***************************************************************************)
MaxEncLV == 3

mix_bit(n, b) == n * 2 + (IF b THEN 1 ELSE 0)

\* strip_bit_usize_2: the low bit, and what is left.
strip_bit(n) == [bit |-> n % 2 = 1, n |-> n \div 2]

num_encode_zigzag(i) == IF i >= 0 THEN 2 * i ELSE -2 * i - 1

num_decode_zigzag(n) == IF n % 2 = 0 THEN n \div 2 ELSE -((n + 1) \div 2)

\* CGEntry: [start, end, parents, agent, seq_start, seq_end]. The entries of
\* a causal graph: the runs that share an agent's seqs and a graph entry.
CGEntryAt(cg, start, end) ==
    LET txn == find(cg.graph, start)
        loc == get_crdt_location(cg, start)
    IN [start |-> start, end |-> end,
        parents |-> IF txn.span[1] = start THEN txn.parents ELSE <<start - 1>>,
        agent |-> loc.agent, seq_start |-> loc.seq, seq_end |-> loc.seq + (end - start)]

iter_entries(cg) ==
    LET starts == SetToSortedSeq({e.span[1] : e \in Range(cg.graph)}
                                 \cup {r[1] : r \in Range(cg.client_with_order)})
    IN [i \in 1..Len(starts) |->
            CGEntryAt(cg, starts[i],
                      IF i < Len(starts) THEN starts[i + 1] ELSE NextLV(cg.graph))]

parents_are_trivial(data) ==
    Len(data.parents) = 1 /\ data.parents[1] = data.start - 1

\* WriteMap: agent_map[agent] = [mapped, next] (mapped -1: not in the file
\* yet), txn_map the KVPairs <<local start, output start, output end>> in
\* local order.
NewWriteMap(cg) ==
    [agent_map |-> [a \in 1..Len(cg.client_data) |-> [mapped |-> -1, next |-> 0]],
     num_agents |-> 0,
     txn_map |-> <<>>]

txn_map_has(wm, time) ==
    \E i \in 1..Len(wm.txn_map) :
        wm.txn_map[i][1] <= time /\ time < wm.txn_map[i][1] + (wm.txn_map[i][3] - wm.txn_map[i][2])

\* RleVec::insert: the pair goes to its place in key order.
txn_map_insert(tm, kv) ==
    LET before == SelectSeq(tm, LAMBDA e : e[1] < kv[1])
        after == SelectSeq(tm, LAMBDA e : e[1] >= kv[1])
    IN before \o <<kv>> \o after

\* The output time of a local time the file holds.
txn_map_find(wm, time) ==
    LET e == wm.txn_map[CHOOSE i \in 1..Len(wm.txn_map) :
                wm.txn_map[i][1] <= time
                /\ time < wm.txn_map[i][1] + (wm.txn_map[i][3] - wm.txn_map[i][2])]
    IN e[2] + (time - e[1])

\* Returns <<result, write_map>>.
write_cg_aa(result, write_parents, span, wm, cg) ==
    LET known == wm.agent_map[span.agent].mapped # -1
        mapped_agent == IF known THEN wm.agent_map[span.agent].mapped ELSE 0
        delta == span.seq_start - wm.agent_map[span.agent].next
        has_jump == delta # 0
        n == mix_bit(mix_bit(mix_bit(mapped_agent, has_jump), known), write_parents)
    IN <<[result EXCEPT !.bytes = @ \o <<n>>
            \o (IF known THEN <<>> ELSE <<get_agent_name(cg, span.agent)>>)
            \o <<span.seq_end - span.seq_start>>
            \o (IF has_jump THEN <<num_encode_zigzag(delta)>> ELSE <<>>)],
         [wm EXCEPT !.agent_map[span.agent] =
                        [mapped |-> IF known THEN @.mapped ELSE wm.num_agents,
                         next |-> span.seq_end],
                    !.num_agents = IF known THEN @ ELSE @ + 1]>>

\* A parent the file holds is written as its distance back from the next
\* output time, the root as a foreign parent of agent 0; ok turns FALSE at
\* the subtraction that overflows.
RECURSIVE write_parents_loop(_, _, _, _)
write_parents_loop(result, parents, next_output_time, wm) ==
    IF ~result.ok \/ Len(parents) = 0 THEN result
    ELSE LET mapped_parent == txn_map_find(wm, Head(parents))
             has_more == Len(parents) > 1
         IN IF ~txn_map_has(wm, Head(parents)) \/ mapped_parent > next_output_time
            THEN [result EXCEPT !.ok = FALSE]
            ELSE write_parents_loop(
                    [result EXCEPT !.bytes = @ \o
                        <<mix_bit(mix_bit(next_output_time - mapped_parent, has_more), FALSE)>>],
                    Tail(parents), next_output_time, wm)

write_parents_raw(result, parents, next_output_time, wm) ==
    IF Len(parents) = 0
    THEN [result EXCEPT !.bytes = @ \o <<mix_bit(mix_bit(0, FALSE), TRUE)>>]
    ELSE write_parents_loop(result, parents, next_output_time, wm)

\* Returns <<result, write_map>>.
write_cg_entry(result, data, write_map, cg) ==
    LET write_parents == \/ ~parents_are_trivial(data)
                         \/ data.start = 0
                         \/ ~txn_map_has(write_map, data.start - 1)
        next_output_time == IF Len(write_map.txn_map) = 0 THEN 0
                            ELSE Last(write_map.txn_map)[3]
        wm1 == [write_map EXCEPT !.txn_map = txn_map_insert(@,
                    <<data.start, next_output_time,
                      next_output_time + (data.end - data.start)>>)]
        aa == write_cg_aa(result, write_parents, data, wm1, cg)
    IN IF ~result.ok THEN <<result, write_map>>
       ELSE IF write_parents
       THEN <<write_parents_raw(aa[1], data.parents, next_output_time, aa[2]), aa[2]>>
       ELSE aa

RECURSIVE write_cg_entry_loop(_, _, _, _)
write_cg_entry_loop(result, entries, write_map, cg) ==
    IF Len(entries) = 0 THEN result
    ELSE LET w == write_cg_entry(result, Head(entries), write_map, cg)
         IN write_cg_entry_loop(w[1], Tail(entries), w[2], cg)

\* The entries given are the graph's own: none continues the one before it,
\* so the Merger passes each on as it is.
write_cg_entry_iter(entries, write_map, cg) ==
    write_cg_entry_loop([ok |-> TRUE, bytes |-> <<>>], entries, write_map, cg)


\* ReadMap: agent_map the <<agent, last seq>> pairs in file order, txn_map
\* the KVPairs <<file time, local start, local end>>.
NewReadMap == [agent_map |-> <<>>, txn_map |-> <<>>]

\* ReadMap::len: the next file time.
read_map_len(rm) ==
    IF Len(rm.txn_map) = 0 THEN 0
    ELSE Last(rm.txn_map)[1] + (Last(rm.txn_map)[3] - Last(rm.txn_map)[2])

\* ReadMap::last_time: the local time of the last file time, ROOT_TIME
\* standing for None.
last_time(rm) ==
    IF Len(rm.txn_map) = 0 THEN ROOT_TIME ELSE Last(rm.txn_map)[3] - 1

\* The local time of a file time, ROOT_TIME for a file time not read yet.
file_to_local(rm, file_time) ==
    LET hits == {i \in 1..Len(rm.txn_map) :
                    /\ rm.txn_map[i][1] <= file_time
                    /\ file_time < rm.txn_map[i][1] + (rm.txn_map[i][3] - rm.txn_map[i][2])}
    IN IF hits = {} THEN ROOT_TIME
       ELSE LET e == rm.txn_map[CHOOSE i \in hits : TRUE]
            IN e[2] + (file_time - e[1])

\* A reader is [ok, bytes, cg, read_map]: ok turns FALSE at a ParseError.
\* Returns [r, has_parents, span].
read_cg_aa(r) ==
    LET b1 == strip_bit(Head(r.bytes))
        b2 == strip_bit(b1.n)
        b3 == strip_bit(b2.n)
        has_parents == b1.bit
        is_known == b2.bit
        has_jump == b3.bit
        mapped_agent == b3.n
        rest1 == Tail(r.bytes)
        bad == \/ ~is_known /\ mapped_agent # 0
               \/ is_known /\ mapped_agent >= Len(r.read_map.agent_map)
        cg1 == IF is_known THEN r.cg ELSE get_or_create_agent_id(r.cg, Head(rest1))
        agent == IF is_known THEN r.read_map.agent_map[mapped_agent + 1][1]
                 ELSE get_agent_id(cg1, Head(rest1))
        last_seq == IF is_known THEN r.read_map.agent_map[mapped_agent + 1][2] ELSE 0
        idx == IF is_known THEN mapped_agent ELSE Len(r.read_map.agent_map)
        agent_map1 == IF is_known THEN r.read_map.agent_map
                      ELSE Append(r.read_map.agent_map, <<agent, 0>>)
        rest2 == IF is_known THEN rest1 ELSE Tail(rest1)
        len == Head(rest2)
        jump == IF has_jump THEN num_decode_zigzag(Head(Tail(rest2))) ELSE 0
        rest3 == IF has_jump THEN Tail(Tail(rest2)) ELSE Tail(rest2)
        start == last_seq + jump
    IN IF bad \/ start < 0
       THEN [r |-> [r EXCEPT !.ok = FALSE], has_parents |-> FALSE,
             span |-> [agent |-> 0, seq_start |-> 0, seq_end |-> 0]]
       ELSE [r |-> [r EXCEPT !.bytes = rest3, !.cg = cg1,
                             !.read_map.agent_map =
                                [agent_map1 EXCEPT ![idx + 1] = <<agent, start + len>>]],
             has_parents |-> has_parents,
             span |-> [agent |-> agent, seq_start |-> start, seq_end |-> start + len]]

\* Returns [ok, bytes, parents]: a parent is the file time its distance back
\* from next_file_time names.
RECURSIVE read_parents_loop(_, _, _, _)
read_parents_loop(bytes, next_file_time, rm, parents) ==
    LET b1 == strip_bit(Head(bytes))
        b2 == strip_bit(b1.n)
        is_foreign == b1.bit
        has_more == b2.bit
        p == file_to_local(rm, next_file_time - b2.n)
    IN IF is_foreign
       THEN [ok |-> b2.n = 0 /\ ~has_more /\ parents = {}, bytes |-> Tail(bytes),
             parents |-> <<>>]
       ELSE IF p = ROOT_TIME
       THEN [ok |-> FALSE, bytes |-> Tail(bytes), parents |-> <<>>]
       ELSE IF has_more
       THEN read_parents_loop(Tail(bytes), next_file_time, rm, parents \cup {p})
       ELSE [ok |-> TRUE, bytes |-> Tail(bytes),
             parents |-> SetToSortedSeq(parents \cup {p})]

read_parents_raw(bytes, next_file_time, rm) ==
    read_parents_loop(bytes, next_file_time, rm, {})

\* Returns [r, parents, span].
read_raw(r, next_file_time) ==
    LET aa == read_cg_aa(r)
        pr == read_parents_raw(aa.r.bytes, next_file_time, aa.r.read_map)
    IN IF ~aa.r.ok THEN [r |-> aa.r, parents |-> <<>>, span |-> aa.span]
       ELSE IF aa.has_parents
       THEN [r |-> [aa.r EXCEPT !.ok = pr.ok, !.bytes = pr.bytes],
             parents |-> pr.parents, span |-> aa.span]
       ELSE [r |-> [aa.r EXCEPT !.ok = last_time(aa.r.read_map) # ROOT_TIME],
             parents |-> <<last_time(aa.r.read_map)>>, span |-> aa.span]

\* The item_times of the agent within the seq range, pushed at the file
\* times that follow next_file_time.
RECURSIVE push_item_times(_, _, _, _)
push_item_times(txn_map, next_file_time, item_times, span) ==
    IF Len(item_times) = 0 THEN txn_map
    ELSE LET e == Head(item_times)
             lo == Max(e[1], span.seq_start)
             hi == Min(e[1] + e[3], span.seq_end)
         IN IF lo >= hi
            THEN push_item_times(txn_map, next_file_time, Tail(item_times), span)
            ELSE push_item_times(
                    Append(txn_map, <<next_file_time, e[2] + (lo - e[1]), e[2] + (hi - e[1])>>),
                    next_file_time + (hi - lo), Tail(item_times), span)

read_cg_entry_into_cg(r) ==
    LET next_file_time == read_map_len(r.read_map)
        raw == read_raw(r, next_file_time)
        cg1 == merge_and_assign(raw.r.cg, raw.parents, raw.span)
        merged_start == NextLV(raw.r.cg.graph)
        merged_end == NextLV(cg1.graph)
    IN IF ~raw.r.ok THEN raw.r
       ELSE [raw.r EXCEPT
                !.cg = cg1,
                !.read_map.txn_map =
                    IF merged_end - merged_start = raw.span.seq_end - raw.span.seq_start
                    THEN Append(@, <<next_file_time, merged_start, merged_end>>)
                    ELSE push_item_times(@, next_file_time,
                            cg1.client_data[raw.span.agent].item_orders, raw.span)]

\* The entries of the bytes read one after the other into the causal graph.
RECURSIVE read_entries(_)
read_entries(r) ==
    IF ~r.ok \/ Len(r.bytes) = 0 THEN r ELSE read_entries(read_cg_entry_into_cg(r))

EmptyCG == [graph |-> <<>>, client_data |-> <<>>, client_with_order |-> <<>>]

\* The orders the entries can be written in: every entry after the entries
\* of its parents.
CausalOrders(cg) ==
    LET entries == iter_entries(cg)
        n == Len(entries)
        EntryOf(lv) == CHOOSE i \in 1..n : entries[i].start <= lv /\ lv < entries[i].end
    IN {o \in [1..n -> 1..n] :
            /\ \A i, j \in 1..n : i # j => o[i] # o[j]
            /\ \A i \in 1..n : \A p \in Range(entries[o[i]].parents) :
                  \E j \in 1..(i - 1) : o[j] = EntryOf(p)}

\* An agent sets its next seqs, or later ones, on top of what it has seen of
\* its own.
AssignLocalOp(agent, parents, jump, len) ==
    /\ ret.op = "none"
    /\ NextLV(docs[1].graph) + len <= MaxEncLV
    /\ LET client == docs[1].client_data[agent]
       IN /\ get_next_seq(client) > 0 =>
                seq_to_order(client, get_next_seq(client) - 1) \in History(docs[1].graph, parents)
          /\ docs' = <<assign_span(docs[1], parents, agent, get_next_seq(client) + jump, len)>>
    /\ UNCHANGED <<log, dest, rope, list_branch, cgvars>>

\* The entries written in the order o and the bytes read back into an
\* empty causal graph.
WriteReadEntries(o) ==
    /\ ret.op = "none"
    /\ LET cg == docs[1]
           entries == iter_entries(cg)
           written == write_cg_entry_iter([i \in 1..Len(entries) |-> entries[o[i]]],
                                          NewWriteMap(cg), cg)
       IN ret' = [op |-> "write_read", a |-> o, wrote |-> written.ok,
                  out |-> IF written.ok
                          THEN read_entries([ok |-> TRUE, bytes |-> written.bytes,
                                             cg |-> EmptyCG, read_map |-> NewReadMap])
                          ELSE [ok |-> FALSE, bytes |-> <<>>,
                                cg |-> EmptyCG, read_map |-> NewReadMap]]
    /\ UNCHANGED <<graph, docvars>>

NextEnc ==
    \/ /\ ret.op = "none"
       /\ \E agent \in 1..2, parents \in Frontiers(docs[1].graph), jump \in 0..1, len \in 1..2 :
            AssignLocalOp(agent, parents, jump, len)
    \/ /\ ret.op = "none"
       /\ \E o \in CausalOrders(docs[1]) : WriteReadEntries(o)
    \/ Return

SpecEnc == InitAssign /\ [][NextEnc]_vars

\* The graph with every LV written as its agent's name and seq: for each LV,
\* its id and the ids of its parents.
NamedId(cg, lv) ==
    LET loc == get_crdt_location(cg, lv)
    IN <<get_agent_name(cg, loc.agent), loc.seq>>

NamedTopology(cg) ==
    {[id |-> NamedId(cg, lv), parents |-> {NamedId(cg, p) : p \in ParentsOf(cg.graph, lv)}] :
        lv \in 0..(NextLV(cg.graph) - 1)}

\* C38: the entries of a causal graph written with write_cg_entry_iter, in
\* LV order or in another order, and read back with read_cg_entry_into_cg
\* into an empty causal graph give every entry its agent and seqs and its
\* parents again, also where trivial parents were omitted.
C38_WriteReadRoundTrip ==
    ret.op = "write_read" =>
        /\ ret.wrote
        /\ ret.out.ok
        /\ NamedTopology(ret.out.cg) = NamedTopology(docs[1])


(***************************************************************************)
(* The causal graph file (src/storage/causalgraph.rs)                      *)
(*   docs[1]   the CausalGraphStorage with its file: [file, pos, writes,   *)
(*             blit_size, next_write_location, next_counter, dirty,        *)
(*             next_blit, last_parents, assigned_to, known, last_blit,     *)
(*             flushed, result]                                             *)
(* A byte of the file is <<id, i>>: byte i of the write id, <<0, 0>> for a  *)
(* zero byte; writes[id] tells what the write was. A blit read back is     *)
(* valid when all its bytes are in place, which is what its checksum and   *)
(* length tell. Every varint takes one byte. known is the agents the       *)
(* persisted agent map holds, last_blit the id of the last blit written    *)
(* whole, flushed where and how long the fallback of the last append wrote *)
(* the pending entry (at -1: it did not), result what the last call gave.  *)
(***************************************************************************)
CG_HEADER_LENGTH == 16
BlitSize == 16
MaxAppends == 3

\* Agent names: "seph" and "kaarina".
AgentNameLen == <<4, 7>>

FileBytes(id, n) == [i \in 1..n |-> <<id, i - 1>>]

ZeroBytes(n) == [i \in 1..n |-> <<0, 0>>]

data_start(st) == CG_HEADER_LENGTH + st.blit_size * 2

next_blit_location(st) == CG_HEADER_LENGTH + st.blit_size * (IF st.next_blit THEN 1 ELSE 0)

\* File::write_all at the cursor: the first n bytes of a new write.
file_write(st, info, n) ==
    LET id == Len(st.writes) + 1
        f == IF Len(st.file) < st.pos THEN st.file \o ZeroBytes(st.pos - Len(st.file))
             ELSE st.file
    IN [st EXCEPT !.writes = Append(@, info),
                  !.file = SubSeq(f, 1, st.pos) \o FileBytes(id, n)
                           \o SubSeq(f, st.pos + n + 1, Len(f)),
                  !.pos = @ + n]

\* read_blit on one of the two blit regions: [ok, id, filesize, counter, len].
read_blit(st, slot) ==
    LET base == CG_HEADER_LENGTH + st.blit_size * slot
        id == st.file[base + 1][1]
    IN IF /\ id >= 1
          /\ st.writes[id].kind = "blit"
          /\ st.writes[id].total <= st.blit_size
          /\ \A i \in 1..st.writes[id].total : st.file[base + i] = <<id, i - 1>>
       THEN [ok |-> TRUE, id |-> id, filesize |-> st.writes[id].filesize,
             counter |-> st.writes[id].counter, len |-> st.writes[id].len]
       ELSE [ok |-> FALSE, id |-> 0, filesize |-> 0, counter |-> 0, len |-> 0]

\* impl Ord for Blit: Greater.
blit_greater(b1, b2) ==
    \/ b1.filesize > b2.filesize
    \/ b1.filesize = b2.filesize /\ b1.counter > b2.counter

\* Returns [active_blit, next_blit].
read_initial_blits(st) ==
    LET b1 == read_blit(st, 0)
        b2 == read_blit(st, 1)
    IN IF b1.ok /\ b2.ok
       THEN IF blit_greater(b1, b2) THEN [active_blit |-> b1, next_blit |-> TRUE]
            ELSE [active_blit |-> b2, next_blit |-> FALSE]
       ELSE IF b1.ok THEN [active_blit |-> b1, next_blit |-> TRUE]
       ELSE IF b2.ok THEN [active_blit |-> b2, next_blit |-> FALSE]
       ELSE [active_blit |-> [ok |-> TRUE, id |-> 0, filesize |-> 0, counter |-> 0, len |-> 0],
             next_blit |-> FALSE]

NoParents == [start |-> 0, end |-> 0, parents |-> <<>>]
NoSpan == [agent |-> 0, seq_start |-> 0, seq_end |-> 0]

\* open on a path that holds no file: the header, then the two blit regions
\* made by set_len, then read_initial_blits.
open_new ==
    LET st0 == [file |-> FileBytes(1, CG_HEADER_LENGTH) \o ZeroBytes(BlitSize * 2),
                pos |-> CG_HEADER_LENGTH + BlitSize * 2,
                writes |-> <<[kind |-> "header"]>>,
                blit_size |-> BlitSize,
                next_write_location |-> 0, next_counter |-> 0,
                dirty |-> FALSE, next_blit |-> FALSE,
                last_parents |-> NoParents, assigned_to |-> NoSpan,
                known |-> {}, last_blit |-> 0,
                flushed |-> [at |-> -1, len |-> 0], result |-> "Ok"]
        b == read_initial_blits(st0)
    IN [st0 EXCEPT !.next_blit = b.next_blit,
                   !.next_counter = b.active_blit.counter + 1,
                   !.next_write_location = b.active_blit.filesize]

\* write_blit_to under a BufWriter: the checksum and the length are in the
\* buffer when the size is found too large, and the buffer is written when
\* the BufWriter is dropped.
write_blit_to(st, blit) ==
    LET body_len == 1 + 1 + blit.len
        len_len == 1
        total == 4 + len_len + body_len
        info == [kind |-> "blit", filesize |-> blit.filesize, counter |-> blit.counter,
                 len |-> blit.len, total |-> total]
    IN IF total > st.blit_size
       THEN [file_write(st, info, 4 + len_len) EXCEPT !.result = "BlitTooLarge"]
       ELSE [file_write(st, info, total) EXCEPT !.last_blit = Len(st.writes) + 1]

\* debug_assert_eq!(position, next_write_location + data_start): checked
\* where debug assertions are compiled in.
position_asserted(st, debug) ==
    debug => st.pos = st.next_write_location + data_start(st)

write_blit(st, blit, debug) ==
    IF ~position_asserted(st, debug) THEN [st EXCEPT !.result = "panic"]
    ELSE LET w == write_blit_to([st EXCEPT !.pos = next_blit_location(st)], blit)
         IN IF w.result # "Ok" THEN w
            ELSE [w EXCEPT !.next_blit = ~@,
                           !.pos = st.next_write_location + data_start(st)]

push_data_blit(st, len, debug) ==
    LET w == write_blit(st, [filesize |-> st.next_write_location,
                             counter |-> st.next_counter, len |-> len], debug)
    IN IF w.result # "Ok" THEN w
       ELSE [w EXCEPT !.next_counter = @ + 1, !.dirty = FALSE]

write_data(st, len, debug) ==
    IF ~position_asserted(st, debug) THEN [st EXCEPT !.result = "panic"]
    ELSE [file_write(st, [kind |-> "data"], len) EXCEPT
            !.next_write_location = @ + len,
            !.next_counter = 0,
            !.dirty = TRUE]

\* The bytes write_txn_entry takes: the length and the parents.
encode_last_parents(st) == 1 + Max(1, Len(st.last_parents.parents))

\* The bytes write_agent_assignment_span takes: the agent, by its name while
\* the file does not know it, and the length.
encode_last_agent_assignment(st) ==
    IF st.assigned_to.agent \in st.known THEN 2
    ELSE 2 + AgentNameLen[st.assigned_to.agent]

parents_can_append(a, b) == a.end = b.start /\ b.parents = <<a.end - 1>>

span_can_append(a, b) == a.agent = b.agent /\ a.seq_end = b.seq_start

\* The first half of append: the parents.
append_parents(st, parents, debug) ==
    IF st.last_parents.start = st.last_parents.end
    THEN [st EXCEPT !.last_parents = parents]
    ELSE IF parents_can_append(st.last_parents, parents)
    THEN [st EXCEPT !.last_parents.end = parents.end]
    ELSE LET w == write_data(st, encode_last_parents(st), debug)
         IN IF w.result # "Ok" THEN w ELSE [w EXCEPT !.last_parents = parents]

\* The second half: the span.
append_span(st, span, debug) ==
    IF st.result # "Ok" THEN st
    ELSE IF st.assigned_to.seq_start = st.assigned_to.seq_end
    THEN [st EXCEPT !.assigned_to = span]
    ELSE IF span_can_append(st.assigned_to, span)
    THEN [st EXCEPT !.assigned_to.seq_end = span.seq_end]
    ELSE LET w == write_data(st, encode_last_agent_assignment(st), debug)
         IN IF w.result # "Ok" THEN w
            ELSE [w EXCEPT !.known = @ \cup {st.assigned_to.agent}, !.assigned_to = span]

\* The fallback of append: the pending entry goes to the data segment and
\* an empty blit is written.
append_fallback(st, debug) ==
    LET len == encode_last_parents(st) + encode_last_agent_assignment(st)
        w == write_data([st EXCEPT !.flushed = [at |-> st.pos, len |-> len]], len, debug)
        cleared == [w EXCEPT !.known = @ \cup {st.assigned_to.agent},
                             !.last_parents.end = w.last_parents.start,
                             !.assigned_to.seq_end = w.assigned_to.seq_start]
    IN IF w.result # "Ok" THEN w ELSE push_data_blit(cleared, 0, debug)

append(st, parents, span, debug) ==
    LET s == append_span(append_parents([st EXCEPT !.flushed = [at |-> -1, len |-> 0]],
                                        parents, debug), span, debug)
        w == push_data_blit(s, encode_last_parents(s) + encode_last_agent_assignment(s), debug)
    IN IF s.result # "Ok" THEN s
       ELSE IF w.result = "BlitTooLarge" THEN append_fallback([w EXCEPT !.result = "Ok"], debug)
       ELSE w


\* The oplog the storage follows: the next LV and the agents' next seqs.
NewStorage == open_new @@ [next_time |-> 0, next_seq |-> <<0, 0>>]

\* append of the next LV, made by the agent with the parents given; debug
\* tells whether debug assertions are compiled in.
StorageAppend(parents, agent, debug) ==
    /\ ret.op = "none"
    /\ docs[1].result = "Ok"
    /\ docs[1].next_time < MaxAppends
    /\ LET st == docs[1]
           n == st.next_time
       IN /\ docs' = <<append(
                        [st EXCEPT !.next_time = n + 1, !.next_seq[agent] = @ + 1],
                        [start |-> n, end |-> n + 1, parents |-> parents],
                        [agent |-> agent, seq_start |-> st.next_seq[agent],
                         seq_end |-> st.next_seq[agent] + 1],
                        debug)>>
          /\ ret' = [op |-> "append", a |-> parents, b |-> agent, t |-> n, out |-> debug]
    /\ UNCHANGED <<log, dest, rope, list_branch, graph>>

ParentsAt(n) ==
    {<<>>} \cup (IF n >= 1 THEN {<<n - 1>>} ELSE {}) \cup (IF n >= 2 THEN {<<0, n - 1>>} ELSE {})

NextStore ==
    \/ /\ ret.op = "none"
       /\ \E parents \in ParentsAt(docs[1].next_time), agent \in 1..2, debug \in BOOLEAN :
            StorageAppend(parents, agent, debug)
    \/ Return

InitStore ==
    /\ docs = <<NewStorage>>
    /\ log = <<>>
    /\ dest = NoDest
    /\ rope = <<>>
    /\ list_branch = [version |-> <<>>, content |-> <<>>]
    /\ graph = <<>>
    /\ ret = NoRet

SpecStore == InitStore /\ [][NextStore]_vars

\* C39: an append whose pending entry does not fit in the blit region
\* writes the entry at the data offset next_write_location (not in the
\* header or the blit regions, not over committed data), clears the
\* pending entry, writes an empty blit with the new file size and returns
\* Ok; and after every append the blit written last is the active one on
\* reopen.
C39_AppendFallback ==
    ret.op = "append" =>
        LET st == docs[1]
        IN /\ st.flushed.at # -1 =>
                /\ st.result = "Ok"
                /\ st.flushed.at = data_start(st) + st.next_write_location - st.flushed.len
                /\ st.last_parents.start = st.last_parents.end
                /\ st.assigned_to.seq_start = st.assigned_to.seq_end
                /\ st.last_blit # 0
                /\ st.writes[st.last_blit].len = 0
                /\ st.writes[st.last_blit].filesize = st.next_write_location
           /\ st.result = "Ok" => read_initial_blits(st).active_blit.id = st.last_blit

====
